---- MODULE Spec2Model ----
(***************************************************************************)
(* Mentor certification workflow of Bond-Room-Backend: training progress,  *)
(* quiz attempts and the onboarding status rows of the mentors, as written *)
(* by the handlers of core/api_views.py, core/onboarding.py and            *)
(* core/models/mentor_onboarding.py, and the quiz generator of              *)
(* core/quiz.py.                                                           *)
(***************************************************************************)
EXTENDS Integers, Sequences, FiniteSets, TLC

(* ---------------------------------------------------------------- bounds *)
MaxModules == 3
MaxAttempts == 2
MaxQuestions == 8
MaxStatusModules == 2     \* active modules while the onboarding row is written
MaxGenModules == 2        \* active modules of a generator call
MaxTotalQuestions == 3    \* total_questions of a generator call
MaxResponseLen == 2       \* items in one response of the generation source

(* ------------------------------------------------------ program constants *)
TotalQuestions == 15
TRAINING_QUIZ_PASS_MARK == 7
StartRetriesPlusOne == 3 + 1
StartRetries == 3
GenerationRoundsPlusOne == 5 + 1
GenerationRounds == 5
MinRequestCount == 6

STATUS_CHOICES == {"pending", "in_review", "completed", "rejected"}

(* Optional values: None is the empty sequence, Some(v) a one-element one. *)
None == <<>>
Some(v) == <<v>>
Val(o) == o[1]

(* --------------------------------------------------------------- state   *)
VARIABLES
    numModules,   \* number of active TrainingModule rows, ordered 1..numModules
    progress,     \* the MentorTrainingProgress table: a set of rows
    attempts,     \* the MentorTrainingQuizAttempt table: rows by id
    onboarding,   \* mentor -> None | Some(MentorOnboardingStatus row)
    clock,        \* timezone.now(), advanced whenever an attempt is stamped
    last,         \* the last request handled and its HTTP response code
    actor,        \* the mentor the last request was resolved to (0: none yet)
    inflight      \* the calls that have started and not yet returned

vars == <<numModules, progress, attempts, onboarding, clock, last, actor, inflight>>

(* The mentors of the system; Primary is the one whose run-through the     *)
(* single-mentor specifications follow.                                    *)
Mentors == {1, 2}
Primary == 1

(* ------------------------------------------------ strings with a case    *)
(* A text is <<id, case>>; lower() forgets the case.                       *)
Text(id, case) == <<id, case>>
Lower(t) == <<t[1], "lower">>

ModuleTitle(m) == Text(m, "mixed")

(* ------------------------------------------- MentorOnboardingStatus      *)
(* The derivation with the completion rule tried before the rejection rule. *)
derive_current_status_no_rejection(application_status, identity_status, contact_status, training_status, final_approval_status) ==
    LET stages == <<application_status, identity_status, contact_status,
                    training_status, final_approval_status>>
    IN  IF identity_status = "completed" /\ training_status = "completed"
           /\ final_approval_status = "completed"
        THEN "completed"
        ELSE IF \E i \in 1..5 : stages[i] = "rejected" THEN "rejected"
        ELSE IF \A i \in 1..5 : stages[i] = "pending" THEN "pending"
        ELSE IF \A i \in 1..5 : stages[i] = "completed" THEN "completed"
        ELSE "in_review"


(* The derivation whose completion rule looks at identity and training      *)
(* only.                                                                    *)
derive_current_status_without_final_approval(application_status, identity_status, contact_status, training_status, final_approval_status) ==
    LET stages == <<application_status, identity_status, contact_status,
                    training_status, final_approval_status>>
    IN  IF \E i \in 1..5 : stages[i] = "rejected" THEN "rejected"
        ELSE IF identity_status = "completed" /\ training_status = "completed"
        THEN "completed"
        ELSE IF \A i \in 1..5 : stages[i] = "pending" THEN "pending"
        ELSE IF \A i \in 1..5 : stages[i] = "completed" THEN "completed"
        ELSE "in_review"

derive_current_status(application_status, identity_status, contact_status, training_status, final_approval_status) ==
    LET stages == <<application_status, identity_status, contact_status,
                    training_status, final_approval_status>>
    IN  IF \E i \in 1..5 : stages[i] = "rejected" THEN "rejected"
        ELSE IF identity_status = "completed" /\ training_status = "completed"
                /\ final_approval_status = "completed"
        THEN "completed"
        ELSE IF \A i \in 1..5 : stages[i] = "pending" THEN "pending"
        ELSE IF \A i \in 1..5 : stages[i] = "completed" THEN "completed"
        ELSE "in_review"

sync_current_status(inst) ==
    [inst EXCEPT !.current_status =
        derive_current_status(inst.application_status, inst.identity_status,
                              inst.contact_status, inst.training_status,
                              inst.final_approval_status)]

OnboardingFields == {"application_status", "identity_status", "contact_status",
                     "training_status", "final_approval_status", "current_status"}

(* save() without recomputing current_status: the listed fields are written *)
(* as the caller left them.                                                 *)
save_without_sync(row, inst, update_fields) ==
    [f \in OnboardingFields |-> IF f \in update_fields THEN inst[f] ELSE row[f]]

(* MentorOnboardingStatus.save(update_fields=...): current_status is       *)
(* recomputed on the instance and always among the written columns; the    *)
(* other columns of the stored row keep their value.                       *)
save(row, inst, update_fields) ==
    LET synced == sync_current_status(inst)
        fields == update_fields \cup {"current_status"}
    IN  [f \in OnboardingFields |-> IF f \in fields THEN synced[f] ELSE row[f]]

(* Field defaults of the model; objects.create overrides the ones given.   *)
OnboardingDefaults ==
    [application_status |-> "completed", identity_status |-> "pending",
     contact_status |-> "pending", training_status |-> "pending",
     final_approval_status |-> "pending", current_status |-> "in_review"]

create_onboarding(inst) == save(inst, inst, OnboardingFields)

get_or_create_onboarding(onb) ==
    IF onb = None THEN create_onboarding(OnboardingDefaults) ELSE Val(onb)

(* ------------------------------------------------- training progress     *)
ActiveModules == 1..numModules

(* progress_map of build_training_module_payload_for_mentor: the rows of    *)
(* the mentor by module id.                                                 *)
progress_map(rows, mentor) ==
    [m \in 1..MaxModules |->
        LET found == {row \in rows : row.mentor = mentor /\ row.module = m}
        IN  IF found = {} THEN None ELSE Some(CHOOSE row \in found : TRUE)]

(* is_completed of build_training_module_payload_for_mentor. *)
is_completed(p) ==
    p # None /\ (Val(p).status = "completed" \/ Val(p).progress_percent >= 100)

payload_item(m, p, previous_modules_completed) ==
    IF is_completed(p)
    THEN [id |-> m, training_status |-> "completed", progress_percent |-> 100,
          completed_at |-> Val(p).completed_at]
    ELSE IF previous_modules_completed
    THEN [id |-> m, training_status |-> "in_progress",
          progress_percent |-> IF p # None /\ Val(p).progress_percent >= 50 THEN 50 ELSE 0,
          completed_at |-> None]
    ELSE [id |-> m, training_status |-> "locked", progress_percent |-> 0,
          completed_at |-> None]

(* The fold with an accumulator that is never updated.                      *)
RECURSIVE payload_fold_no_accumulator(_, _, _, _, _)
payload_fold_no_accumulator(prog, n, m, payload, previous_modules_completed) ==
    IF m > n THEN payload
    ELSE LET item == payload_item(m, prog[m], previous_modules_completed)
         IN  payload_fold_no_accumulator(prog, n, m + 1, Append(payload, item),
                                         previous_modules_completed)

(* The left-to-right fold over the ordered modules, with the accumulator    *)
(* previous_modules_completed.                                              *)
RECURSIVE payload_fold(_, _, _, _, _)
payload_fold(prog, n, m, payload, previous_modules_completed) ==
    IF m > n THEN payload
    ELSE LET item == payload_item(m, prog[m], previous_modules_completed)
         IN  payload_fold(prog, n, m + 1, Append(payload, item),
                          previous_modules_completed /\ item.training_status = "completed")

build_training_module_payload_for_mentor(prog, n) ==
    payload_fold(prog, n, 1, <<>>, TRUE)

modules_fully_completed_some(module_payload) ==
    \E i \in 1..Len(module_payload) : module_payload[i].training_status = "completed"


(* all() alone, which is true of the empty payload.                         *)
modules_fully_completed_or_empty(module_payload) ==
    \A i \in 1..Len(module_payload) : module_payload[i].training_status = "completed"

modules_fully_completed(module_payload) ==
    module_payload # <<>>
    /\ \A i \in 1..Len(module_payload) : module_payload[i].training_status = "completed"

(* ------------------------------------------------- core/onboarding.py    *)
derive_training_status_ignoring_progress(module_payload) ==
    IF module_payload = <<>> THEN "pending"
    ELSE IF \A i \in 1..Len(module_payload) :
                module_payload[i].training_status = "completed"
    THEN "completed"
    ELSE "pending"

derive_training_status_from_module_payload(module_payload) ==
    IF module_payload = <<>> THEN "pending"
    ELSE IF \A i \in 1..Len(module_payload) :
                module_payload[i].training_status = "completed"
    THEN "completed"
    ELSE IF \E i \in 1..Len(module_payload) : module_payload[i].progress_percent > 0
    THEN "in_review"
    ELSE "pending"

(* The attempt table with the rows of every mentor left in.                 *)
attempts_of_any_mentor(att, mentor) == att

(* MentorTrainingQuizAttempt.objects.filter(mentor=mentor): the table with  *)
(* the rows of other mentors blanked, so that ids keep their place.         *)
NotOwned == [status |-> "not owned"]

attempts_of(att, mentor) ==
    [i \in 1..Len(att) |-> IF att[i].mentor = mentor THEN att[i] ELSE NotOwned]

has_resolved_training_quiz(att) ==
    \E i \in 1..Len(att) : att[i].status \in {"passed", "failed"}

has_passed_training_quiz(att) ==
    \E i \in 1..Len(att) : att[i].status = "passed"

next_training_status_ungated(module_payload, att) ==
    derive_training_status_from_module_payload(module_payload)

(* next_status of sync_mentor_onboarding_training_status when a module      *)
(* payload is passed.                                                       *)
next_training_status(module_payload, att) ==
    LET module_status == derive_training_status_from_module_payload(module_payload)
    IN  IF module_status = "completed" /\ ~has_passed_training_quiz(att)
        THEN "in_review"
        ELSE module_status

(* The stored onboarding row after sync_mentor_onboarding_training_status. *)
sync_mentor_onboarding_training_status(onb, module_payload, att) ==
    LET row == get_or_create_onboarding(onb)
        next_status == next_training_status(module_payload, att)
    IN  IF row.training_status # next_status
        THEN save(row, [row EXCEPT !.training_status = next_status],
                  {"training_status", "current_status"})
        ELSE row

(* _derive_training_status_from_db: the status derived from the stored      *)
(* progress rows of the active modules and the stored attempts.             *)
derive_training_status_from_db(rows, mentor, n, att) ==
    LET active_module_ids == 1..n
        progress_qs == {p \in rows : p.mentor = mentor /\ p.module \in active_module_ids}
        completed_ids == {p.module : p \in {q \in progress_qs :
                              q.status = "completed" \/ q.progress_percent >= 100}}
        all_modules_completed == Cardinality(completed_ids) = Cardinality(active_module_ids)
        has_started == \E p \in progress_qs :
                           \/ p.progress_percent > 0
                           \/ p.status \in {"in_progress", "completed"}
    IN  IF active_module_ids = {} THEN "pending"
        ELSE IF all_modules_completed
        THEN IF has_passed_training_quiz(att) THEN "completed" ELSE "in_review"
        ELSE IF has_started THEN "in_review" ELSE "pending"

(* ------------------------------------------------------------ responses  *)
Response(op, target, arg, code) ==
    [op |-> op, target |-> target, arg |-> arg, code |-> code]

(* ------------------------------------------------------- watch_video     *)
ProgressDefaults == [status |-> "in_progress", progress_percent |-> 0,
                     completed_at |-> None, last_activity_at |-> None]

watch_is_locked_never(module_state) == FALSE

watch_is_locked(module_state) == module_state.training_status = "locked"

(* Video 2 is refused while the clamped progress is below 50.               *)
second_video_too_early_never(video_index, current_percent) == FALSE

second_video_too_early(video_index, current_percent) ==
    video_index = 2 /\ current_percent < 50

(* The progress a marked video leads to: video 1 keeps at least 50, video 2 *)
(* is 100.                                                                  *)
next_percent_half(video_index, current_percent) ==
    IF current_percent > 50 THEN current_percent ELSE 50


(* The progress of a marked video taken from the video alone.               *)
next_percent_by_video(video_index, current_percent) ==
    IF video_index = 1 THEN 50 ELSE 100

next_percent_of(video_index, current_percent) ==
    IF video_index = 1
    THEN IF current_percent > 50 THEN current_percent ELSE 50
    ELSE 100

(* objects.create of get_or_create whether or not the pair has a row.       *)
get_or_create_progress_always_creates(rows, mentor, m) ==
    rows \cup {[mentor |-> mentor, module |-> m] @@ ProgressDefaults}

(* The table after MentorTrainingProgress.objects.get_or_create.            *)
get_or_create_progress(rows, mentor, m) ==
    IF progress_map(rows, mentor)[m] = None
    THEN rows \cup {[mentor |-> mentor, module |-> m] @@ ProgressDefaults}
    ELSE rows

watch_video(mentor, m, video_index) ==
    /\ mentor \in Mentors
    /\ m \in 1..MaxModules
    /\ video_index \in {1, 2}
    /\ actor' = mentor
    /\ UNCHANGED <<numModules, attempts, clock, inflight>>
    /\ IF m \notin ActiveModules
       THEN \* get_object() raises Http404 for a module that is not active
            /\ last' = Response("watch_video", m, video_index, 404)
            /\ UNCHANGED <<progress, onboarding>>
       ELSE LET module_payload == build_training_module_payload_for_mentor(
                                      progress_map(progress, mentor), numModules)
                module_state == module_payload[m]
            IN  IF watch_is_locked(module_state)
                THEN /\ last' = Response("watch_video", m, video_index, 409)
                     /\ UNCHANGED <<progress, onboarding>>
                ELSE LET rows == get_or_create_progress(progress, mentor, m)
                         row == Val(progress_map(rows, mentor)[m])
                         current_percent == IF row.progress_percent >= 100 THEN 100
                                            ELSE IF row.progress_percent >= 50 THEN 50
                                            ELSE 0
                     IN  IF second_video_too_early(video_index, current_percent)
                         THEN \* the row of get_or_create stays; nothing else is written
                              /\ progress' = rows
                              /\ last' = Response("watch_video", m, video_index, 400)
                              /\ UNCHANGED onboarding
                         ELSE LET next_percent ==
                                      next_percent_of(video_index, current_percent)
                                  saved == [row EXCEPT
                                      !.status = IF next_percent >= 100
                                                 THEN "completed" ELSE "in_progress",
                                      !.progress_percent = next_percent,
                                      !.last_activity_at = Some("now"),
                                      !.completed_at = IF next_percent >= 100
                                                       THEN Some("now") ELSE None]
                                  new_progress == (rows \ {row}) \cup {saved}
                                  new_payload ==
                                      build_training_module_payload_for_mentor(
                                          progress_map(new_progress, mentor), numModules)
                              IN  /\ progress' = new_progress
                                  /\ onboarding' = [onboarding EXCEPT ![mentor] = Some(
                                         sync_mentor_onboarding_training_status(
                                             onboarding[mentor], new_payload,
                                             attempts_of(attempts, mentor)))]
                                  /\ last' = Response("watch_video", m, video_index, 200)

(* ------------------------------------------------------- quiz questions  *)
Range(s) == {s[i] : i \in 1..Len(s)}

Question(text, options, correct, title) ==
    [question |-> text, options |-> options,
     correct_option_index |-> correct, module_title |-> title]

OptionsOf(case) == [k \in 1..4 |-> Text(k, case)]

(* Results the generator can hand to quiz_start for n active modules: two   *)
(* different question sets, and the first one reordered and re-cased.       *)
QuizA(n) == [i \in 1..TotalQuestions |->
                Question(Text(i, "lower"), OptionsOf("lower"), 1,
                         ModuleTitle(((i - 1) % n) + 1))]
QuizB(n) == [i \in 1..TotalQuestions |->
                Question(Text(TotalQuestions + i, "lower"), OptionsOf("lower"), 0,
                         ModuleTitle(((i - 1) % n) + 1))]
Reversed(qs) == [i \in 1..Len(qs) |-> qs[Len(qs) + 1 - i]]
Recased(qs) == [i \in 1..Len(qs) |->
                   [qs[i] EXCEPT !.question = Text(qs[i].question[1], "mixed"),
                                 !.options = OptionsOf("mixed")]]

GeneratedQuizzes(n) == {QuizA(n), QuizB(n), Reversed(QuizA(n)), Recased(QuizA(n))}
GenerationError == [ok |-> FALSE, questions |-> <<>>]
Generated(qs) == [ok |-> TRUE, questions |-> qs]
GenerationOutcomes(n) ==
    IF n = 0 THEN {GenerationError}   \* "No training modules available to generate quiz."
    ELSE {GenerationError} \cup {Generated(qs) : qs \in GeneratedQuizzes(n)}


(* The tuple of the lower-cased entries in the order of the questions.      *)
quiz_questions_signature_unsorted(questions) ==
    [i \in 1..Len(questions) |->
        <<Lower(questions[i].question),
          [k \in 1..4 |-> Lower(questions[i].options[k])],
          Lower(questions[i].module_title)>>]

(* quiz_questions_signature: the sorted tuple of lower-cased entries, i.e.  *)
(* the multiset of the entries, here a function from entry to its count.    *)
signature_entry(item) ==
    <<Lower(item.question), [k \in 1..4 |-> Lower(item.options[k])],
      Lower(item.module_title)>>

quiz_questions_signature(questions) ==
    LET entries == [i \in 1..Len(questions) |-> signature_entry(questions[i])]
    IN  [e \in Range(entries) |-> Cardinality({i \in 1..Len(entries) : entries[i] = e})]

(* A value of a submitted answer list: one that int() converts to n, or one *)
(* for which int() raises (a string that is not a number, a null).          *)
RawInt(n) == <<"int", n>>
RawText == <<"text", 0>>

(* int(value) inside try/except (TypeError, ValueError): None where it      *)
(* raises.                                                                  *)
parse_int(value) == IF value[1] = "int" THEN Some(value[2]) ELSE None

(* evaluate_quiz_attempt: one slot per question; the entries beyond the     *)
(* questions are cut off; a missing, unparsable or negative entry is None.  *)
normalized_answers_untruncated(questions, selected_answers) ==
    [i \in 1..(IF Len(selected_answers) > Len(questions)
               THEN Len(selected_answers) ELSE Len(questions)) |->
        IF i <= Len(selected_answers)
           /\ parse_int(selected_answers[i]) # None
           /\ Val(parse_int(selected_answers[i])) >= 0
        THEN parse_int(selected_answers[i]) ELSE None]

normalized_answers(questions, selected_answers) ==
    [i \in 1..Len(questions) |->
        IF i <= Len(selected_answers)
           /\ parse_int(selected_answers[i]) # None
           /\ Val(parse_int(selected_answers[i])) >= 0
        THEN parse_int(selected_answers[i]) ELSE None]

evaluate_quiz_attempt(questions, selected_answers) ==
    LET answers == normalized_answers(questions, selected_answers)
        score == Cardinality({i \in 1..Len(questions) :
                     answers[i] # None
                     /\ Val(answers[i]) = questions[i].correct_option_index})
    IN  [score |-> score, answers |-> answers]

(* -------------------------------------------------------- quiz lookups   *)
(* .filter(status in statuses).order_by("-started_at", "-id").first(): the  *)
(* highest id that matches, or 0 when there is none.                        *)
latest_attempt(att, statuses) ==
    LET ids == {i \in 1..Len(att) : att[i].status \in statuses}
    IN  IF ids = {} THEN 0 ELSE CHOOSE i \in ids : \A j \in ids : j <= i

passed_attempt_unchecked(att) == 0

passed_attempt(att) == latest_attempt(att, {"passed"})

pending_attempt_unchecked(att) == 0

pending_attempt(att) == latest_attempt(att, {"pending"})

latest_resolved_attempt(att) == latest_attempt(att, {"passed", "failed"})

(* "not latest_signature": there is no resolved attempt, or its signature  *)
(* is the empty tuple.                                                      *)
signature_is_falsy(latest_signature) ==
    latest_signature = None \/ DOMAIN Val(latest_signature) = {}

(* The generation loop of quiz_start: up to three calls of the generator,   *)
(* each of which raises or returns one of the sets above; the loop stops at *)
(* the first set whose signature differs from the latest one. The value is  *)
(* the set of results the loop can end with from its k-th call on: the      *)
(* error when a call raises, else the questions held after the loop, each   *)
(* with the number of generator calls made.                                 *)
RECURSIVE generation_loop(_, _, _)
generation_loop(n, k, latest_signature) ==
    UNION { IF ~outcome.ok
            THEN {[ok |-> FALSE, questions |-> <<>>, calls |-> k]}
            ELSE IF signature_is_falsy(latest_signature)
                    \/ quiz_questions_signature(outcome.questions) # Val(latest_signature)
            THEN {[ok |-> TRUE, questions |-> outcome.questions, calls |-> k]}
            ELSE IF k = StartRetries
            THEN {[ok |-> TRUE, questions |-> outcome.questions, calls |-> k]}
            ELSE generation_loop(n, k + 1, latest_signature)
          : outcome \in GenerationOutcomes(n) }

(* The check after the loop: the questions held still repeat the latest     *)
(* resolved attempt.                                                        *)
stale_after_loop_never(questions, latest_signature) == FALSE

stale_after_loop(questions, latest_signature) ==
    /\ ~signature_is_falsy(latest_signature)
    /\ quiz_questions_signature(questions) = Val(latest_signature)

NewAttempt(mentor, questions) ==
    [mentor |-> mentor, total_questions |-> TotalQuestions, pass_mark |-> TRAINING_QUIZ_PASS_MARK,
     questions |-> questions, selected_answers |-> <<>>, score |-> 0,
     status |-> "pending", submitted_at |-> None]

(* ---------------------------------------------------------- quiz_start   *)
(* The response log keeps the attempt answered with (0 when there is none)  *)
(* and the number of generator calls the request made.                      *)
quiz_start(mentor) ==
    /\ mentor \in Mentors
    /\ actor' = mentor
    /\ UNCHANGED <<numModules, progress, clock, inflight>>
    /\ LET module_payload == build_training_module_payload_for_mentor(
                                 progress_map(progress, mentor), numModules)
           own == attempts_of(attempts, mentor)
           synced == [onboarding EXCEPT ![mentor] = Some(
                         sync_mentor_onboarding_training_status(
                             onboarding[mentor], module_payload, own))]
       IN  IF ~modules_fully_completed(module_payload)
           THEN /\ last' = Response("quiz_start", 0, 0, 409)
                /\ UNCHANGED <<attempts, onboarding>>
           ELSE IF passed_attempt(own) # 0
           THEN /\ onboarding' = synced
                /\ last' = Response("quiz_start", passed_attempt(own), 0, 200)
                /\ UNCHANGED attempts
           ELSE IF pending_attempt(own) # 0
           THEN /\ onboarding' = synced
                /\ last' = Response("quiz_start", pending_attempt(own), 0, 200)
                /\ UNCHANGED attempts
           ELSE LET resolved == latest_resolved_attempt(own)
                    latest_signature ==
                        IF resolved # 0
                        THEN Some(quiz_questions_signature(own[resolved].questions))
                        ELSE None
                IN  \E result \in generation_loop(numModules, 1, latest_signature) :
                    IF ~result.ok
                    THEN \* except Exception: the error becomes a 503 response
                         /\ last' = Response("quiz_start", 0, result.calls, 503)
                         /\ UNCHANGED <<attempts, onboarding>>
                    ELSE IF stale_after_loop(result.questions, latest_signature)
                    THEN /\ last' = Response("quiz_start", 0, result.calls, 503)
                         /\ UNCHANGED <<attempts, onboarding>>
                    ELSE /\ Len(attempts) < MaxAttempts
                         /\ attempts' = Append(attempts, NewAttempt(mentor, result.questions))
                         /\ onboarding' = [onboarding EXCEPT ![mentor] = Some(
                                sync_mentor_onboarding_training_status(
                                    onboarding[mentor], module_payload,
                                    attempts_of(attempts', mentor)))]
                         /\ last' = Response("quiz_start", Len(attempts'), result.calls, 201)

(* --------------------------------------------------------- quiz_submit   *)
(* TrainingQuizSubmitSerializer: a non-empty list of integers 0..3. The     *)
(* errors of the entries are reported by position.                          *)
validation_errors(selected_answers) ==
    {<<i, selected_answers[i]>> : i \in {j \in 1..Len(selected_answers) :
        ~(selected_answers[j][1] = "int" /\ selected_answers[j][2] \in 0..3)}}

selected_answers_valid(selected_answers) ==
    /\ Len(selected_answers) > 0
    /\ validation_errors(selected_answers) = {}

(* An answer list of the given length whose first k entries are the        *)
(* correct options and whose other entries are wrong ones.                  *)
AnswerSheet(questions, k, len) ==
    [i \in 1..len |->
        IF i > Len(questions) THEN RawInt(0)
        ELSE IF i <= k THEN RawInt(questions[i].correct_option_index)
        ELSE RawInt((questions[i].correct_option_index + 1) % 4)]

(* <<number of correct answers, length of the list>> of the lists tried;    *)
(* the last one is the empty list.                                          *)
AnswerSheetShapes == {<<6, 15>>, <<7, 15>>, <<7, 7>>, <<15, 16>>, <<0, 0>>}

is_not_pending_never(attempt) == FALSE

is_not_pending_only_passed(attempt) == attempt.status = "passed"

is_not_pending(attempt) == attempt.status # "pending"

(* passed = score >= TRAINING_QUIZ_PASS_MARK, whatever the attempt holds.   *)
is_passing_score_by_stored_mark(score, attempt) == score >= attempt.pass_mark


is_passing_score_above_mark(score, attempt) == score > TRAINING_QUIZ_PASS_MARK

is_passing_score(score, attempt) == score >= TRAINING_QUIZ_PASS_MARK

(* The response log keeps the submitted list of a request that was graded   *)
(* and the entries the serializer refused of one that was not.              *)
quiz_submit(mentor, attempt_id, selected_answers) ==
    /\ mentor \in Mentors
    /\ attempt_id \in 1..MaxAttempts
    /\ actor' = mentor
    /\ UNCHANGED <<numModules, progress, inflight>>
    /\ IF ~selected_answers_valid(selected_answers)
       THEN \* is_valid(raise_exception=True), before the attempt is looked up
            /\ last' = Response("quiz_submit", attempt_id,
                                validation_errors(selected_answers), 400)
            /\ UNCHANGED <<attempts, onboarding, clock>>
       ELSE IF attempt_id > Len(attempts)
               \/ attempts_of(attempts, mentor)[attempt_id] = NotOwned
       THEN /\ last' = Response("quiz_submit", attempt_id, "", 404)
            /\ UNCHANGED <<attempts, onboarding, clock>>
       ELSE LET attempt == attempts_of(attempts, mentor)[attempt_id]
            IN  IF is_not_pending(attempt)
                THEN /\ last' = Response("quiz_submit", attempt_id, "", 409)
                     /\ UNCHANGED <<attempts, onboarding, clock>>
                ELSE LET graded == evaluate_quiz_attempt(attempt.questions, selected_answers)
                         passed == is_passing_score(graded.score, attempt)
                         module_payload ==
                             build_training_module_payload_for_mentor(
                                 progress_map(progress, mentor), numModules)
                     IN  /\ clock' = clock + 1
                         /\ attempts' = [attempts EXCEPT ![attempt_id] =
                                [attempt EXCEPT
                                    !.pass_mark = TRAINING_QUIZ_PASS_MARK,
                                    !.selected_answers = graded.answers,
                                    !.score = graded.score,
                                    !.status = IF passed THEN "passed" ELSE "failed",
                                    !.submitted_at = Some(clock')]]
                         /\ onboarding' = [onboarding EXCEPT ![mentor] = Some(
                                sync_mentor_onboarding_training_status(
                                    onboarding[mentor], module_payload,
                                    attempts_of(attempts', mentor)))]
                         /\ last' = Response("quiz_submit", attempt_id, selected_answers, 200)

(* -------------------------------------------------------- quiz_abandon   *)
quiz_abandon(mentor, attempt_id) ==
    /\ mentor \in Mentors
    /\ attempt_id \in 1..MaxAttempts
    /\ actor' = mentor
    /\ UNCHANGED <<numModules, progress, inflight>>
    /\ IF attempt_id > Len(attempts)
          \/ attempts_of(attempts, mentor)[attempt_id] = NotOwned
       THEN /\ last' = Response("quiz_abandon", attempt_id, "", 404)
            /\ UNCHANGED <<attempts, onboarding, clock>>
       ELSE LET attempt == attempts_of(attempts, mentor)[attempt_id]
                module_payload ==
                    build_training_module_payload_for_mentor(
                        progress_map(progress, mentor), numModules)
            IN  /\ IF ~is_not_pending(attempt)
                   THEN /\ clock' = clock + 1
                        /\ attempts' = [attempts EXCEPT ![attempt_id] =
                               [attempt EXCEPT !.score = 0, !.status = "failed",
                                               !.submitted_at = Some(clock')]]
                   ELSE UNCHANGED <<attempts, clock>>
                /\ onboarding' = [onboarding EXCEPT ![mentor] = Some(
                       sync_mentor_onboarding_training_status(
                           onboarding[mentor], module_payload,
                           attempts_of(attempts', mentor)))]
                /\ last' = Response("quiz_abandon", attempt_id, "", 200)

(* ------------------------------------------------------ admin_decision   *)
(* The handler gets or creates the onboarding row, then, inside            *)
(* transaction.atomic(), calls derive_current_status without its required  *)
(* keyword-only argument final_approval_status: the TypeError rolls the     *)
(* block back and the request ends in a server error. Only the row created  *)
(* before the block stays.                                                  *)
admin_decision(mentor, decision) ==
    /\ mentor \in Mentors
    /\ decision \in STATUS_CHOICES
    /\ actor' = mentor
    /\ onboarding' = [onboarding EXCEPT ![mentor] =
                          Some(get_or_create_onboarding(onboarding[mentor]))]
    /\ last' = Response("admin_decision", 0, "", 500)
    /\ UNCHANGED <<numModules, progress, attempts, clock, inflight>>

(* ------------------------------------------- MentorContactVerifyOtpView  *)
(* The contact verification record is outside this state: whether the OTP   *)
(* matches is an input. Only a verified phone writes the onboarding row.    *)
contact_verify_otp(mentor, channel, otp_valid) ==
    /\ mentor \in Mentors
    /\ channel \in {"email", "phone"}
    /\ otp_valid \in BOOLEAN
    /\ actor' = mentor
    /\ UNCHANGED <<numModules, progress, attempts, clock, inflight>>
    /\ IF ~otp_valid
       THEN /\ last' = Response("contact_verify_otp", 0, channel, 400)
            /\ UNCHANGED onboarding
       ELSE /\ last' = Response("contact_verify_otp", 0, channel, 200)
            /\ IF channel = "phone"
               THEN LET row == get_or_create_onboarding(onboarding[mentor])
                    IN  onboarding' = [onboarding EXCEPT ![mentor] = Some(
                            IF row.contact_status # "completed"
                            THEN save(row, [row EXCEPT !.contact_status = "completed"],
                                      {"contact_status", "current_status"})
                            ELSE row)]
               ELSE UNCHANGED onboarding

(* ----------------------------------------- MentorOnboardingStatusViewSet *)
(* POST: a row with the given column values, saved through the model.       *)
onboarding_create(mentor, inst) ==
    /\ mentor \in Mentors
    /\ inst \in [OnboardingFields -> STATUS_CHOICES]
    /\ actor' = mentor
    /\ UNCHANGED <<numModules, progress, attempts, clock, inflight>>
    /\ IF onboarding[mentor] # None
       THEN \* the one-to-one mentor column is unique
            /\ last' = Response("onboarding_create", 0, "", 400)
            /\ UNCHANGED onboarding
       ELSE /\ onboarding' = [onboarding EXCEPT ![mentor] = Some(create_onboarding(inst))]
            /\ last' = Response("onboarding_create", 0, inst.current_status, 201)

(* PATCH of one column: the serializer sets it and calls save(). The       *)
(* response log keeps the column, and the value when it is current_status.  *)
onboarding_partial_update(mentor, field, value) ==
    /\ mentor \in Mentors
    /\ field \in OnboardingFields
    /\ value \in STATUS_CHOICES
    /\ actor' = mentor
    /\ UNCHANGED <<numModules, progress, attempts, clock, inflight>>
    /\ LET arg == IF field = "current_status" THEN <<field, value>> ELSE <<field>>
       IN  IF onboarding[mentor] = None
           THEN /\ last' = Response("onboarding_partial_update", 0, arg, 404)
                /\ UNCHANGED onboarding
           ELSE LET row == Val(onboarding[mentor])
                IN  /\ onboarding' = [onboarding EXCEPT ![mentor] =
                           Some(save(row, [row EXCEPT ![field] = value],
                                     OnboardingFields))]
                    /\ last' = Response("onboarding_partial_update", 0, arg, 200)

(* ------------------------------------------------------- specifications  *)
Init ==
    /\ numModules \in 0..MaxModules
    /\ progress = {}
    /\ attempts = <<>>
    /\ onboarding = [mentor \in Mentors |-> None]
    /\ clock = 0
    /\ last = Response("none", 0, "", 0)
    /\ actor = 0
    /\ inflight = <<>>

(* The requests of one mentor, with every input they take.                  *)
WatchVideoOf(mentor) ==
    \E m \in 1..MaxModules, video_index \in {1, 2} : watch_video(mentor, m, video_index)
QuizStartOf(mentor) == quiz_start(mentor)
(* The lists are built against the questions of the attempt addressed.      *)
QuizSubmitOf(mentor) ==
    \E attempt_id \in 1..MaxAttempts, shape \in AnswerSheetShapes :
        LET questions == IF attempt_id <= Len(attempts)
                         THEN attempts[attempt_id].questions ELSE <<>>
        IN  quiz_submit(mentor, attempt_id, AnswerSheet(questions, shape[1], shape[2]))
QuizAbandonOf(mentor) ==
    \E attempt_id \in 1..MaxAttempts : quiz_abandon(mentor, attempt_id)

WatchVideo == WatchVideoOf(Primary)
QuizStart == QuizStartOf(Primary)
QuizSubmit == QuizSubmitOf(Primary)
QuizAbandon == QuizAbandonOf(Primary)
AdminDecision == \E decision \in STATUS_CHOICES : admin_decision(Primary, decision)
ContactVerifyOtp == \E channel \in {"email", "phone"}, otp_valid \in BOOLEAN :
                        contact_verify_otp(Primary, channel, otp_valid)
(* A POST for a mentor who has a row is rejected whatever its body: one body *)
(* stands for all of them there.                                            *)
OnboardingCreate ==
    \E inst \in (IF onboarding[Primary] = None THEN [OnboardingFields -> STATUS_CHOICES]
                 ELSE {OnboardingDefaults}) : onboarding_create(Primary, inst)
OnboardingPartialUpdate == \E field \in OnboardingFields, value \in STATUS_CHOICES :
                               onboarding_partial_update(Primary, field, value)

(* The certification workflow of one mentor, requests handled one at a time. *)
Next ==
    \/ WatchVideo
    \/ QuizStart
    \/ QuizSubmit
    \/ QuizAbandon
    \/ AdminDecision
    \/ ContactVerifyOtp

Spec == Init /\ [][Next]_vars

(* The onboarding row written through its REST resource, by the contact     *)
(* verification, by the admin decision and by the training sync of a watch. *)
NextStatus ==
    \/ OnboardingCreate
    \/ OnboardingPartialUpdate
    \/ ContactVerifyOtp
    \/ AdminDecision
    \/ WatchVideo

InitStatus == Init /\ numModules <= MaxStatusModules

SpecStatus == InitStatus /\ [][NextStatus]_vars

(* Grading. The mentor has completed the only module and holds one pending  *)
(* attempt with up to MaxQuestions questions whose correct options vary,    *)
(* stored with today's pass mark or with the one attempts had before it     *)
(* was lowered; answer lists of every length up to one more than the        *)
(* questions are submitted, with any number of leading correct answers and  *)
(* with one entry replaced by any other value.                              *)
LegacyPassMark == 11

CompletedRow == [mentor |-> Primary, module |-> 1,
                 status |-> "completed", progress_percent |-> 100,
                 last_activity_at |-> Some("now"), completed_at |-> Some("now")]

GradeQuiz(n, shift) ==
    [i \in 1..n |-> Question(Text(i, "lower"), OptionsOf("lower"),
                             (i + shift) % 4, ModuleTitle(1))]

AnswerEntries == {RawInt(v) : v \in -1..4} \cup {RawText}

GradeSheets(questions) ==
    LET n == Len(questions)
        base == {AnswerSheet(questions, k, len) : k \in 0..n, len \in 0..(n + 1)}
    IN  base \cup UNION {{[sheet EXCEPT ![pos] = v] :
                              pos \in 1..Len(sheet), v \in AnswerEntries} : sheet \in base}

InitGrade ==
    /\ numModules = 1
    /\ progress = {CompletedRow}
    /\ \E n \in 0..MaxQuestions, shift \in {0, 1},
          mark \in {TRAINING_QUIZ_PASS_MARK, LegacyPassMark} :
           attempts = <<[NewAttempt(Primary, GradeQuiz(n, shift)) EXCEPT
                            !.total_questions = n, !.pass_mark = mark]>>
    /\ onboarding = [mentor \in Mentors |->
                         IF mentor = Primary
                         THEN Some(sync_mentor_onboarding_training_status(
                                  None,
                                  build_training_module_payload_for_mentor(
                                      progress_map(progress, Primary), numModules),
                                  <<>>))
                         ELSE None]
    /\ clock = 0
    /\ last = Response("none", 0, "", 0)
    /\ actor = 0
    /\ inflight = <<>>

(* Once the attempt is resolved the answer is decided by the validity of    *)
(* the list alone: one valid and one invalid list stand for all of them.    *)
QuizSubmitGraded ==
    \E selected_answers \in
          (IF attempts[1].status = "pending"
           THEN GradeSheets(attempts[1].questions)
           ELSE {AnswerSheet(attempts[1].questions, 0, 1), <<>>}) :
        quiz_submit(Primary, 1, selected_answers)

NextGrade == QuizSubmitGraded

SpecGrade == InitGrade /\ [][NextGrade]_vars


(* Two mentors at work on one active module, requests handled one at a     *)
(* time in any order.                                                      *)
InitIso ==
    /\ numModules = 1
    /\ progress = {}
    /\ attempts = <<>>
    /\ onboarding = [mentor \in Mentors |-> None]
    /\ clock = 0
    /\ last = Response("none", 0, "", 0)
    /\ actor = 0
    /\ inflight = <<>>

(* The watch requests name the active module or the one after it; the      *)
(* answer lists are a failing one, a passing one and the empty one.         *)
WatchVideoAny ==
    \E mentor \in Mentors, m \in 1..(numModules + 1), video_index \in {1, 2} :
        watch_video(mentor, m, video_index)
QuizStartAny == \E mentor \in Mentors : QuizStartOf(mentor)
QuizSubmitAny ==
    \E mentor \in Mentors, attempt_id \in 1..MaxAttempts,
       shape \in {<<6, 15>>, <<7, 15>>, <<0, 0>>} :
        LET questions == IF attempt_id <= Len(attempts)
                         THEN attempts[attempt_id].questions ELSE <<>>
        IN  quiz_submit(mentor, attempt_id, AnswerSheet(questions, shape[1], shape[2]))
QuizAbandonAny == \E mentor \in Mentors : QuizAbandonOf(mentor)

NextIso ==
    \/ WatchVideoAny
    \/ QuizStartAny
    \/ QuizSubmitAny
    \/ QuizAbandonAny

SpecIso == InitIso /\ [][NextIso]_vars


(* ------------------------------------------------------- core/quiz.py    *)
(* What the generation source sends back. A raw question is a text with or  *)
(* without a "Q1:" prefix; Empty is the string that is blank once stripped. *)
Empty == Text(0, "lower")
NotAList == [is_list |-> FALSE, values |-> <<>>]
RawList(values) == [is_list |-> TRUE, values |-> values]

RawQuestion(prefix, body) == [prefix |-> prefix, body |-> body]

(* A raw module title: blank, the title of a module in some case, or a text *)
(* of which the titles of the modules in related are a part (or the other   *)
(* way round).                                                             *)
RawTitle(kind, text, related) == [kind |-> kind, text |-> text, related |-> related]

RawItem(question, options, correct, title) ==
    [question |-> question, options |-> options,
     correct_option_index |-> correct, module_title |-> title]

clean_question_text(value) == value.body

is_nonblank_always(option) == TRUE

is_nonblank(option) == option # Empty

title_matches(raw_title, m) ==
    IF raw_title.kind = "title"
    THEN Lower(raw_title.text) = Lower(ModuleTitle(m))
    ELSE m \in raw_title.related

canonicalize_module_title(raw_title, n, module_index) ==
    IF n = 0 THEN raw_title
    ELSE IF raw_title.kind = "blank" THEN ModuleTitle((module_index % n) + 1)
    ELSE LET matching == {m \in 1..n : title_matches(raw_title, m)}
         IN  IF matching # {}
             THEN ModuleTitle(CHOOSE m \in matching : \A k \in matching : m <= k)
             ELSE ModuleTitle((module_index % n) + 1)

question_keys(questions) == {Lower(questions[i].question) : i \in 1..Len(questions)}

(* _normalize_generated_questions; limit 0 stands for no limit.             *)
RECURSIVE normalize_fold(_, _, _, _, _)
normalize_fold(raw_questions, n, limit, i, normalized) ==
    IF i > Len(raw_questions) THEN normalized
    ELSE LET item == raw_questions[i]
             question_text == clean_question_text(item.question)
             options == IF ~item.options.is_list THEN <<>>
                        ELSE SelectSeq(item.options.values, is_nonblank)
             parsed == parse_int(item.correct_option_index)
             correct_idx == IF parsed = None THEN 0
                            ELSE IF Val(parsed) < 0 \/ Val(parsed) >= 4 THEN 0
                            ELSE Val(parsed)
         IN  IF \/ question_text = Empty
                \/ ~item.options.is_list
                \/ Len(options) < 4
                \/ Lower(question_text) \in question_keys(normalized)
             THEN normalize_fold(raw_questions, n, limit, i + 1, normalized)
             ELSE LET kept == Append(normalized,
                                  Question(question_text, SubSeq(options, 1, 4), correct_idx,
                                           canonicalize_module_title(
                                               item.module_title, n, Len(normalized))))
                  IN  IF limit > 0 /\ Len(kept) >= limit THEN kept
                      ELSE normalize_fold(raw_questions, n, limit, i + 1, kept)

normalize_generated_questions(raw_questions, n, limit) ==
    normalize_fold(raw_questions, n, limit, 1, <<>>)

(* The coverage loop of _select_questions_for_quiz: None where a module has *)
(* no unused candidate.                                                     *)
RECURSIVE coverage_fold(_, _, _, _)
coverage_fold(candidates, n, m, selected) ==
    IF m > n THEN Some(selected)
    ELSE LET found == {i \in 1..Len(candidates) :
                          /\ candidates[i].module_title = ModuleTitle(m)
                          /\ Lower(candidates[i].question) \notin question_keys(selected)}
         IN  IF found = {} THEN None
             ELSE coverage_fold(candidates, n, m + 1,
                      Append(selected,
                             candidates[CHOOSE i \in found : \A k \in found : i <= k]))

(* The fill loop: it appends before it tests the length.                    *)
RECURSIVE fill_fold(_, _, _, _)
fill_fold(candidates, total_questions, i, selected) ==
    IF i > Len(candidates) THEN selected
    ELSE IF Lower(candidates[i].question) \in question_keys(selected)
    THEN fill_fold(candidates, total_questions, i + 1, selected)
    ELSE LET longer == Append(selected, candidates[i])
         IN  IF Len(longer) >= total_questions THEN longer
             ELSE fill_fold(candidates, total_questions, i + 1, longer)

(* The selection that returns what it has, however few.                     *)
select_questions_unchecked_count(candidates, n, total_questions) ==
    LET covered == IF n > 0 /\ total_questions >= n
                   THEN coverage_fold(candidates, n, 1, <<>>) ELSE Some(<<>>)
    IN  IF covered = None THEN None
        ELSE LET selected == fill_fold(candidates, total_questions, 1, Val(covered))
             IN  Some(SubSeq(selected, 1,
                             IF Len(selected) < total_questions
                             THEN Len(selected) ELSE total_questions))

(* The selection without its coverage loop.                                 *)
select_questions_without_coverage(candidates, n, total_questions) ==
    LET selected == fill_fold(candidates, total_questions, 1, <<>>)
    IN  IF Len(selected) < total_questions THEN None
        ELSE Some(SubSeq(selected, 1, total_questions))

(* _select_questions_for_quiz: None where it raises RuntimeError.           *)
select_questions_for_quiz(candidates, n, total_questions) ==
    LET covered == IF n > 0 /\ total_questions >= n
                   THEN coverage_fold(candidates, n, 1, <<>>) ELSE Some(<<>>)
    IN  IF covered = None THEN None
        ELSE LET selected == fill_fold(candidates, total_questions, 1, Val(covered))
             IN  IF Len(selected) < total_questions THEN None
                 ELSE Some(SubSeq(selected, 1, total_questions))


(* ------------------------------------ generate_training_quiz_questions   *)
(* A call of the generator is a frame in inflight: the requests made so     *)
(* far, all_candidates, the scope and count of the last request, and how    *)
(* the call stands: running, returned (with its questions), exhausted (the  *)
(* RuntimeError after the loop, which carries len(all_candidates)),         *)
(* source_error (an exception of _generate_questions_with_openai, raised    *)
(* outside the try of the loop) or invalid_total.                           *)
represented_modules(all_candidates) ==
    {all_candidates[i].module_title : i \in 1..Len(all_candidates)}

request_modules_of(all_candidates, n) ==
    LET missing_modules == {m \in 1..n : ModuleTitle(m) \notin represented_modules(all_candidates)}
    IN  IF missing_modules # {} THEN missing_modules ELSE 1..n

(* The count that leaves the modules of the request out.                    *)
request_count_of_without_scope(total_questions, all_candidates, request_modules) ==
    LET wanted == total_questions - Len(all_candidates)
    IN  IF wanted > MinRequestCount THEN wanted ELSE MinRequestCount

request_count_of(total_questions, all_candidates, request_modules) ==
    LET wanted == total_questions - Len(all_candidates)
        scope == Cardinality(request_modules)
        larger == IF wanted > scope THEN wanted ELSE scope
    IN  IF larger > MinRequestCount THEN larger ELSE MinRequestCount

RECURSIVE accumulate(_, _, _)
accumulate(all_candidates, normalized, i) ==
    IF i > Len(normalized) THEN all_candidates
    ELSE IF Lower(normalized[i].question) \in question_keys(all_candidates)
    THEN accumulate(all_candidates, normalized, i + 1)
    ELSE accumulate(Append(all_candidates, normalized[i]), normalized, i + 1)

(* random.shuffle: any order of the selected questions.                     *)
Shuffles(questions) ==
    {[i \in 1..Len(questions) |-> questions[p[i]]] : p \in Permutations(1..Len(questions))}

SourceFailure == [ok |-> FALSE, questions |-> <<>>]
SourceAnswer(raw_questions) == [ok |-> TRUE, questions |-> raw_questions]

GenerateFrame(total_questions, requests, all_candidates, request, state, questions) ==
    [total_questions |-> total_questions, requests |-> requests,
     all_candidates |-> all_candidates, request |-> request,
     state |-> state, questions |-> questions]

NoRequest == [modules |-> {}, count |-> 0]

generate_call(total_questions) ==
    /\ inflight = <<>>
    /\ inflight' = <<GenerateFrame(total_questions, 0, <<>>, NoRequest,
                                   IF total_questions <= 0 THEN "invalid_total"
                                   ELSE "running", <<>>)>>
    /\ UNCHANGED <<numModules, progress, attempts, onboarding, clock, last, actor>>

(* One pass of the loop body, with what the source answers.                 *)
generate_round(response) ==
    /\ inflight # <<>>
    /\ inflight[1].state = "running"
    /\ inflight[1].requests < GenerationRounds
    /\ UNCHANGED <<numModules, progress, attempts, onboarding, clock, last, actor>>
    /\ LET frame == inflight[1]
           request_modules == request_modules_of(frame.all_candidates, numModules)
           request == [modules |-> request_modules,
                       count |-> request_count_of(frame.total_questions,
                                                  frame.all_candidates, request_modules)]
       IN  IF numModules = 0
           THEN \* "No training modules available to generate quiz.", before any request
                inflight' = <<[frame EXCEPT !.state = "source_error"]>>
           ELSE IF ~response.ok
           THEN inflight' = <<[frame EXCEPT !.state = "source_error",
                                            !.requests = @ + 1, !.request = request]>>
           ELSE LET normalized == normalize_generated_questions(
                                      response.questions, numModules, 0)
                    all_candidates == accumulate(frame.all_candidates, normalized, 1)
                    selected == select_questions_for_quiz(
                                    all_candidates, numModules, frame.total_questions)
                IN  IF selected # None
                    THEN \E questions \in Shuffles(Val(selected)) :
                             inflight' = <<GenerateFrame(frame.total_questions,
                                               frame.requests + 1, all_candidates, request,
                                               "returned", questions)>>
                    ELSE inflight' = <<GenerateFrame(frame.total_questions,
                                           frame.requests + 1, all_candidates, request,
                                           IF frame.requests + 1 >= GenerationRounds
                                           THEN "exhausted" ELSE "running", <<>>)>>

(* The items a response is made of: two spellings of one question for       *)
(* different modules, a question with a spare blank option and an index out *)
(* of range, one with no title and an index that is not a number, one whose *)
(* title is part of every module title, and three that are not usable (too  *)
(* few options, no text, options that are not a list).                      *)
RawOptions == RawList(<<Text(1, "mixed"), Text(2, "mixed"), Text(3, "mixed"), Text(4, "mixed")>>)

RawPool ==
    {RawItem(RawQuestion(FALSE, Text(1, "lower")), RawOptions, RawInt(1),
             RawTitle("title", Text(1, "mixed"), {})),
     RawItem(RawQuestion(TRUE, Text(1, "mixed")), RawOptions, RawInt(2),
             RawTitle("title", Text(2, "lower"), {})),
     RawItem(RawQuestion(FALSE, Text(2, "lower")),
             RawList(<<Text(1, "mixed"), Empty, Text(2, "mixed"), Text(3, "mixed"),
                       Text(4, "mixed")>>),
             RawInt(7), RawTitle("title", Text(2, "lower"), {})),
     RawItem(RawQuestion(FALSE, Text(3, "lower")), RawOptions, RawText,
             RawTitle("blank", Empty, {})),
     RawItem(RawQuestion(TRUE, Text(4, "mixed")), RawOptions, RawInt(3),
             RawTitle("part", Empty, 1..MaxGenModules)),
     RawItem(RawQuestion(FALSE, Text(4, "lower")),
             RawList(<<Text(1, "mixed"), Empty, Text(2, "mixed"), Text(3, "mixed")>>),
             RawInt(0), RawTitle("title", Text(1, "mixed"), {})),
     RawItem(RawQuestion(FALSE, Empty), RawOptions, RawInt(0),
             RawTitle("title", Text(1, "mixed"), {})),
     RawItem(RawQuestion(FALSE, Text(3, "mixed")), NotAList, RawInt(0),
             RawTitle("title", Text(2, "mixed"), {}))}

(* A response lists up to MaxResponseLen different items of the pool.       *)
Responses ==
    {SourceFailure}
    \cup {SourceAnswer(raw_questions) :
              raw_questions \in
                  {list \in UNION {[1..len -> RawPool] : len \in 0..MaxResponseLen} :
                      \A i, j \in 1..Len(list) : list[i] = list[j] => i = j}}

InitGen ==
    /\ numModules \in 0..MaxGenModules
    /\ progress = {}
    /\ attempts = <<>>
    /\ onboarding = [mentor \in Mentors |-> None]
    /\ clock = 0
    /\ last = Response("none", 0, "", 0)
    /\ actor = 0
    /\ inflight = <<>>

GenerateCall == \E total_questions \in 0..MaxTotalQuestions : generate_call(total_questions)
GenerateRound == \E response \in Responses : generate_round(response)

NextGen ==
    \/ GenerateCall
    \/ GenerateRound

SpecGen == InitGen /\ [][NextGen]_vars


(* ------------------------------------- one round of generate, from any    *)
(* point of the loop. The candidates gathered so far are those of some      *)
(* modules, with distinct texts; the loop is still running, so the          *)
(* selection from them has failed (or nothing was gathered yet).            *)
MaxScopeModules == 7
MaxScopeExtra == 1
MaxScopeTotal == 9

RECURSIVE Ascending(_)
Ascending(S) ==
    IF S = {} THEN <<>>
    ELSE LET least == CHOOSE m \in S : \A k \in S : m <= k
         IN  <<least>> \o Ascending(S \ {least})

(* One accepted question per module of covered, then extra more of the      *)
(* first of them.                                                           *)
GatheredCandidates(covered, extra) ==
    LET order == Ascending(covered)
    IN  [i \in 1..(Len(order) + extra) |->
            Question(Text(i, "lower"), RawOptions.values, 0,
                     ModuleTitle(IF i <= Len(order) THEN order[i] ELSE order[1]))]

InitScope ==
    /\ numModules \in 1..MaxScopeModules
    /\ progress = {}
    /\ attempts = <<>>
    /\ onboarding = [mentor \in Mentors |-> None]
    /\ clock = 0
    /\ last = Response("none", 0, "", 0)
    /\ actor = 0
    /\ \E covered \in SUBSET (1..numModules), extra \in 0..MaxScopeExtra,
          total_questions \in 1..MaxScopeTotal, requests \in 0..(GenerationRounds - 1) :
          LET all_candidates == GatheredCandidates(covered, extra)
          IN  /\ covered = {} => extra = 0
              /\ requests = 0 => covered = {}
              /\ select_questions_for_quiz(all_candidates, numModules, total_questions) = None
              /\ inflight = <<GenerateFrame(total_questions, requests, all_candidates,
                                            NoRequest, "running", <<>>)>>

(* The round's request, with a source that fails: the request is made and   *)
(* the call ends.                                                           *)
GenerateRequest == generate_round(SourceFailure)

NextScope == GenerateRequest

SpecScope == InitScope /\ [][NextScope]_vars

(* -------------------------------------------- quiz_start, request by     *)
(* request. Between its checks and its create a quiz start waits for the    *)
(* generation source; other requests of the mentor are handled meanwhile.   *)
(* A request that has passed the checks is a frame in inflight: what it     *)
(* read (the module payload, the latest signature) and the number of rows   *)
(* the attempt table held when it looked for a passed and a pending one.    *)
MaxRequests == 2

StartFrame(mentor, module_payload, latest_signature, rows_seen) ==
    [mentor |-> mentor, module_payload |-> module_payload,
     latest_signature |-> latest_signature, rows_seen |-> rows_seen]

(* The part of quiz_start up to the generation loop: a request that is      *)
(* answered by the checks is the whole handler.                             *)
quiz_start_check(mentor) ==
    LET module_payload == build_training_module_payload_for_mentor(
                              progress_map(progress, mentor), numModules)
        own == attempts_of(attempts, mentor)
        resolved == latest_resolved_attempt(own)
        latest_signature == IF resolved # 0
                            THEN Some(quiz_questions_signature(own[resolved].questions))
                            ELSE None
    IN  IF \/ ~modules_fully_completed(module_payload)
           \/ passed_attempt(own) # 0
           \/ pending_attempt(own) # 0
        THEN quiz_start(mentor)
        ELSE /\ Len(inflight) < MaxRequests
             /\ inflight' = Append(inflight,
                                   StartFrame(mentor, module_payload, latest_signature,
                                              Len(attempts)))
             /\ UNCHANGED <<numModules, progress, attempts, onboarding, clock, last, actor>>

(* The rest of quiz_start: the generation loop, the create and the sync.    *)
quiz_start_create(k) ==
    /\ k \in 1..Len(inflight)
    /\ LET frame == inflight[k]
           mentor == frame.mentor
       IN  /\ actor' = mentor
           /\ inflight' = [i \in 1..(Len(inflight) - 1) |->
                              IF i < k THEN inflight[i] ELSE inflight[i + 1]]
           /\ UNCHANGED <<numModules, progress, clock>>
           /\ \E result \in generation_loop(numModules, 1, frame.latest_signature) :
                  IF ~result.ok \/ stale_after_loop(result.questions, frame.latest_signature)
                  THEN /\ last' = Response("quiz_start", 0, result.calls, 503)
                       /\ UNCHANGED <<attempts, onboarding>>
                  ELSE /\ Len(attempts) < MaxAttempts
                       /\ attempts' = Append(attempts, NewAttempt(mentor, result.questions))
                       /\ onboarding' = [onboarding EXCEPT ![mentor] = Some(
                              sync_mentor_onboarding_training_status(
                                  onboarding[mentor], frame.module_payload,
                                  attempts_of(attempts', mentor)))]
                       /\ last' = Response("quiz_start", Len(attempts'), result.calls, 201)

(* The mentor has completed every module and has no attempt.                *)
InitRace ==
    /\ numModules \in 1..MaxModules
    /\ progress = {[CompletedRow EXCEPT !.module = m] : m \in 1..numModules}
    /\ attempts = <<>>
    /\ onboarding = [mentor \in Mentors |-> None]
    /\ clock = 0
    /\ last = Response("none", 0, "", 0)
    /\ actor = 0
    /\ inflight = <<>>

QuizStartCheck == quiz_start_check(Primary)
QuizStartCreate == \E k \in 1..MaxRequests : quiz_start_create(k)

NextRace ==
    \/ QuizStartCheck
    \/ QuizStartCreate

SpecRace == InitRace /\ [][NextRace]_vars

(* -------------------------------------------- quiz_submit and            *)
(* quiz_abandon, query by query. Each handler reads the attempt with one    *)
(* query and writes it with a later save(update_fields=...), with no lock   *)
(* and no transaction around the two; other requests run in between. A      *)
(* request that has read a pending attempt is a frame in inflight, holding  *)
(* the row as it was read.                                                  *)
ResolveFrame(op, mentor, attempt_id, attempt, selected_answers) ==
    [op |-> op, mentor |-> mentor, attempt_id |-> attempt_id, attempt |-> attempt,
     selected_answers |-> selected_answers]

WithoutFrame(frames, k) ==
    [i \in 1..(Len(frames) - 1) |-> IF i < k THEN frames[i] ELSE frames[i + 1]]

(* quiz_submit up to its check of the status read: a request the check      *)
(* answers (404, 409) is the whole handler.                                 *)
quiz_submit_read(mentor, attempt_id, selected_answers) ==
    IF \/ ~selected_answers_valid(selected_answers)
       \/ attempt_id > Len(attempts)
       \/ attempts_of(attempts, mentor)[attempt_id] = NotOwned
       \/ is_not_pending(attempts_of(attempts, mentor)[attempt_id])
    THEN quiz_submit(mentor, attempt_id, selected_answers)
    ELSE /\ Len(inflight) < MaxRequests
         /\ inflight' = Append(inflight,
                               ResolveFrame("quiz_submit", mentor, attempt_id,
                                            attempts[attempt_id], selected_answers))
         /\ UNCHANGED <<numModules, progress, attempts, onboarding, clock, last, actor>>

(* The rest of quiz_submit: the grading of the row read, the save of the    *)
(* five fields and the sync.                                                *)
quiz_submit_write(k) ==
    /\ k \in 1..Len(inflight)
    /\ inflight[k].op = "quiz_submit"
    /\ LET frame == inflight[k]
           mentor == frame.mentor
           graded == evaluate_quiz_attempt(frame.attempt.questions, frame.selected_answers)
           passed == is_passing_score(graded.score, frame.attempt)
           module_payload == build_training_module_payload_for_mentor(
                                 progress_map(progress, mentor), numModules)
       IN  /\ actor' = mentor
           /\ inflight' = WithoutFrame(inflight, k)
           /\ UNCHANGED <<numModules, progress>>
           /\ clock' = clock + 1
           /\ attempts' = [attempts EXCEPT ![frame.attempt_id] =
                  [@ EXCEPT !.pass_mark = TRAINING_QUIZ_PASS_MARK,
                            !.selected_answers = graded.answers,
                            !.score = graded.score,
                            !.status = IF passed THEN "passed" ELSE "failed",
                            !.submitted_at = Some(clock')]]
           /\ onboarding' = [onboarding EXCEPT ![mentor] = Some(
                  sync_mentor_onboarding_training_status(
                      onboarding[mentor], module_payload,
                      attempts_of(attempts', mentor)))]
           /\ last' = Response("quiz_submit", frame.attempt_id, frame.selected_answers, 200)

(* quiz_abandon up to its test of the status read.                          *)
quiz_abandon_read(mentor, attempt_id) ==
    IF \/ attempt_id > Len(attempts)
       \/ attempts_of(attempts, mentor)[attempt_id] = NotOwned
       \/ is_not_pending(attempts_of(attempts, mentor)[attempt_id])
    THEN quiz_abandon(mentor, attempt_id)
    ELSE /\ Len(inflight) < MaxRequests
         /\ inflight' = Append(inflight,
                               ResolveFrame("quiz_abandon", mentor, attempt_id,
                                            attempts[attempt_id], <<>>))
         /\ UNCHANGED <<numModules, progress, attempts, onboarding, clock, last, actor>>

(* The rest of quiz_abandon: the save of score, status and submitted_at,    *)
(* which leaves selected_answers as stored, and the sync.                   *)
quiz_abandon_write(k) ==
    /\ k \in 1..Len(inflight)
    /\ inflight[k].op = "quiz_abandon"
    /\ LET frame == inflight[k]
           mentor == frame.mentor
           module_payload == build_training_module_payload_for_mentor(
                                 progress_map(progress, mentor), numModules)
       IN  /\ actor' = mentor
           /\ inflight' = WithoutFrame(inflight, k)
           /\ UNCHANGED <<numModules, progress>>
           /\ clock' = clock + 1
           /\ attempts' = [attempts EXCEPT ![frame.attempt_id] =
                  [@ EXCEPT !.score = 0, !.status = "failed",
                            !.submitted_at = Some(clock')]]
           /\ onboarding' = [onboarding EXCEPT ![mentor] = Some(
                  sync_mentor_onboarding_training_status(
                      onboarding[mentor], module_payload,
                      attempts_of(attempts', mentor)))]
           /\ last' = Response("quiz_abandon", frame.attempt_id, "", 200)

QuizSubmitRead ==
    \E attempt_id \in 1..MaxAttempts, correct \in {6, 7} :
        LET questions == IF attempt_id <= Len(attempts)
                         THEN attempts[attempt_id].questions ELSE <<>>
        IN  quiz_submit_read(Primary, attempt_id, AnswerSheet(questions, correct, 15))
QuizSubmitWrite == \E k \in 1..MaxRequests : quiz_submit_write(k)
QuizAbandonRead == \E attempt_id \in 1..MaxAttempts : quiz_abandon_read(Primary, attempt_id)
QuizAbandonWrite == \E k \in 1..MaxRequests : quiz_abandon_write(k)

(* The mentor has completed every module; a quiz start (taken whole) gives  *)
(* the pending attempt the two requests are about.                          *)
NextResolve ==
    \/ QuizStart
    \/ QuizSubmitRead
    \/ QuizSubmitWrite
    \/ QuizAbandonRead
    \/ QuizAbandonWrite

SpecResolve == InitRace /\ [][NextResolve]_vars

(* -------------------------------------------- quiz_start, generator call  *)
(* by generator call. The request that has passed the checks is the frame   *)
(* in inflight; it counts the calls of generate_training_quiz_questions it  *)
(* has made and the requests those calls sent to the source. Each call      *)
(* starts with no candidates and sends between 1 and 5 requests (SpecGen);  *)
(* the ones drawn end at the first request or use every round.              *)
StartCall(mentor, module_payload, latest_signature, calls, requests, state, questions) ==
    [mentor |-> mentor, module_payload |-> module_payload,
     latest_signature |-> latest_signature, calls |-> calls, requests |-> requests,
     state |-> state, questions |-> questions]

CallRequests == {1, GenerationRounds}

quiz_start_begin(mentor) ==
    LET module_payload == build_training_module_payload_for_mentor(
                              progress_map(progress, mentor), numModules)
        own == attempts_of(attempts, mentor)
        resolved == latest_resolved_attempt(own)
        latest_signature == IF resolved # 0
                            THEN Some(quiz_questions_signature(own[resolved].questions))
                            ELSE None
    IN  /\ inflight = <<>>
        /\ IF \/ ~modules_fully_completed(module_payload)
              \/ passed_attempt(own) # 0
              \/ pending_attempt(own) # 0
           THEN quiz_start(mentor)
           ELSE /\ inflight' = <<StartCall(mentor, module_payload, latest_signature,
                                           0, 0, "generating", <<>>)>>
                /\ UNCHANGED <<numModules, progress, attempts, onboarding, clock, last, actor>>

(* One pass of for _ in range(3): a call of the generator, then the test    *)
(* of the signature of what it returned.                                    *)
quiz_start_generate(outcome, requests) ==
    /\ inflight # <<>>
    /\ inflight[1].state = "generating"
    /\ inflight[1].calls < StartRetries
    /\ outcome \in GenerationOutcomes(numModules)
    /\ requests \in 1..GenerationRounds
    /\ UNCHANGED <<numModules, progress, attempts, onboarding, clock, last, actor>>
    /\ LET frame == inflight[1]
           counted == [frame EXCEPT !.calls = @ + 1, !.requests = @ + requests]
       IN  IF ~outcome.ok
           THEN inflight' = <<[counted EXCEPT !.state = "raised"]>>
           ELSE IF \/ signature_is_falsy(frame.latest_signature)
                   \/ quiz_questions_signature(outcome.questions)
                          # Val(frame.latest_signature)
           THEN inflight' = <<[counted EXCEPT !.state = "held",
                                              !.questions = outcome.questions]>>
           ELSE inflight' = <<[counted EXCEPT
                                  !.state = IF counted.calls >= StartRetries
                                            THEN "held" ELSE "generating",
                                  !.questions = outcome.questions]>>

(* After the loop: the 503 of the except clause, the 503 of a set that      *)
(* still repeats the latest resolved attempt, or the create and the sync.   *)
quiz_start_finish ==
    /\ inflight # <<>>
    /\ inflight[1].state \in {"raised", "held"}
    /\ LET frame == inflight[1]
           mentor == frame.mentor
       IN  /\ actor' = mentor
           /\ inflight' = <<>>
           /\ UNCHANGED <<numModules, progress, clock>>
           /\ IF \/ frame.state = "raised"
                 \/ stale_after_loop(frame.questions, frame.latest_signature)
              THEN /\ last' = Response("quiz_start", 0, frame.calls, 503)
                   /\ UNCHANGED <<attempts, onboarding>>
              ELSE /\ Len(attempts) < MaxAttempts
                   /\ attempts' = Append(attempts, NewAttempt(mentor, frame.questions))
                   /\ onboarding' = [onboarding EXCEPT ![mentor] = Some(
                          sync_mentor_onboarding_training_status(
                              onboarding[mentor], frame.module_payload,
                              attempts_of(attempts', mentor)))]
                   /\ last' = Response("quiz_start", Len(attempts'), frame.calls, 201)

QuizStartBegin == quiz_start_begin(Primary)
QuizStartGenerate ==
    \E outcome \in GenerationOutcomes(numModules), requests \in CallRequests :
        quiz_start_generate(outcome, requests)
QuizStartFinish == quiz_start_finish

NextStart ==
    \/ QuizStartBegin
    \/ QuizStartGenerate
    \/ QuizStartFinish
    \/ QuizAbandon

SpecStart == InitRace /\ [][NextStart]_vars

(* -------------------------------------------- a mentor who retries. The   *)
(* mentor has completed every module and sends one request after the other: *)
(* quiz starts (generator call by generator call), and submits and abandons *)
(* of the pending attempt. Two things are taken to happen eventually when   *)
(* they stay possible: the source gives a quiz start a valid set that       *)
(* differs from the latest resolved attempt, and the mentor submits 7       *)
(* correct answers to the pending attempt; and a request that was begun is  *)
(* carried through. The source may fail any number of times in between: it  *)
(* is asked once per generator call, so its fresh answer is possible again  *)
(* and again rather than all the time. The mentor gives up an attempt only  *)
(* while the table has room for another one.                                *)
NoRequestOpen == inflight = <<>>

IsPending(attempt_id) ==
    /\ attempt_id <= Len(attempts)
    /\ attempts[attempt_id].mentor = Primary
    /\ attempts[attempt_id].status = "pending"

(* A quiz start that passes the checks and reaches the generation loop.     *)
QuizStartRetry ==
    /\ modules_fully_completed(build_training_module_payload_for_mentor(
                                   progress_map(progress, Primary), numModules))
    /\ passed_attempt(attempts_of(attempts, Primary)) = 0
    /\ pending_attempt(attempts_of(attempts, Primary)) = 0
    /\ QuizStartBegin

(* A generator call that returns a set other than the latest resolved one.  *)
QuizStartGenerateFresh ==
    /\ QuizStartGenerate
    /\ inflight'[1].state = "held"
    /\ ~stale_after_loop(inflight'[1].questions, inflight'[1].latest_signature)

QuizSubmitPassing ==
    \E attempt_id \in 1..MaxAttempts :
        /\ NoRequestOpen
        /\ IsPending(attempt_id)
        /\ quiz_submit(Primary, attempt_id,
                       AnswerSheet(attempts[attempt_id].questions, TRAINING_QUIZ_PASS_MARK, 15))

QuizSubmitFailing ==
    \E attempt_id \in 1..MaxAttempts :
        /\ NoRequestOpen
        /\ IsPending(attempt_id)
        /\ Len(attempts) < MaxAttempts
        /\ quiz_submit(Primary, attempt_id,
                       AnswerSheet(attempts[attempt_id].questions,
                                   TRAINING_QUIZ_PASS_MARK - 1, 15))

QuizAbandonRetry ==
    \E attempt_id \in 1..MaxAttempts :
        /\ NoRequestOpen
        /\ IsPending(attempt_id)
        /\ Len(attempts) < MaxAttempts
        /\ quiz_abandon(Primary, attempt_id)

NextRetry ==
    \/ QuizStartBegin
    \/ QuizStartGenerate
    \/ QuizStartFinish
    \/ QuizSubmitPassing
    \/ QuizSubmitFailing
    \/ QuizAbandonRetry

SpecRetry ==
    /\ InitRace
    /\ [][NextRetry]_vars
    /\ WF_inflight(QuizStartRetry)
    /\ SF_inflight(QuizStartGenerateFresh)
    /\ WF_inflight(QuizStartFinish)
    /\ WF_attempts(QuizSubmitPassing)

(* ================================================================ claims *)
Progress == progress_map(progress, Primary)
Onboarding == onboarding[Primary]
Payload == build_training_module_payload_for_mentor(Progress, numModules)
Row == Val(Onboarding)
Succeeded == last.code \in {200, 201}
NoStageRejected ==
    /\ Row.application_status # "rejected"
    /\ Row.identity_status # "rejected"
    /\ Row.contact_status # "rejected"
    /\ Row.training_status # "rejected"
    /\ Row.final_approval_status # "rejected"

(* C1: sequential unlock. For consecutive active modules k, k+1 the         *)
(* effective state of k+1 is in_progress or completed when k is completed,  *)
(* and locked otherwise, whatever watch requests were made before.          *)
C1_SequentialUnlock ==
    \A k \in 1..(numModules - 1) :
        IF Payload[k].training_status = "completed"
        THEN Payload[k + 1].training_status \in {"in_progress", "completed"}
        ELSE Payload[k + 1].training_status = "locked"

C1_Witness ==
    /\ numModules >= 2
    /\ last.op = "watch_video"
    /\ Payload[1].training_status = "completed"
    /\ Payload[2].training_status = "in_progress"
    /\ Payload[2].progress_percent = 50

(* C2: with requests handled one at a time the mentor has at most one       *)
(* pending quiz attempt.                                                    *)
C2_AtMostOnePending ==
    Cardinality({i \in 1..Len(attempts) : attempts[i].status = "pending"}) <= 1

C2_Witness ==
    /\ Len(attempts) >= 2
    /\ attempts[Len(attempts)].status = "pending"
    /\ last.op = "quiz_start"
    /\ last.code = 200

(* C3: a passed or failed attempt never changes its status, score,          *)
(* selected_answers or submitted_at again; the only status changes are      *)
(* pending to passed and pending to failed, and no attempt is deleted.      *)
C3_TerminalImmutable ==
    [][\A i \in 1..Len(attempts) :
          /\ i <= Len(attempts')
          /\ attempts[i].status \in {"passed", "failed"}
                => /\ attempts'[i].status = attempts[i].status
                   /\ attempts'[i].score = attempts[i].score
                   /\ attempts'[i].selected_answers = attempts[i].selected_answers
                   /\ attempts'[i].submitted_at = attempts[i].submitted_at
          /\ attempts'[i].status # attempts[i].status
                => /\ attempts[i].status = "pending"
                   /\ attempts'[i].status \in {"passed", "failed"}]_vars

C3_Witness ==
    /\ last.op = "quiz_abandon"
    /\ last.code = 200
    /\ last.target <= Len(attempts)
    /\ attempts[last.target].status = "passed"

(* C4: quiz gate. A stored training_status of completed implies that every  *)
(* active module is effectively completed and that a passed attempt exists. *)
C4_QuizGate ==
    (Onboarding # None /\ Row.training_status = "completed")
        => /\ \A m \in ActiveModules : Payload[m].training_status = "completed"
           /\ \E i \in 1..Len(attempts) : attempts[i].status = "passed"

C4_Witness ==
    /\ Onboarding # None
    /\ Row.training_status = "completed"
    /\ numModules >= 2

(* C5: after every successful watch, start, submit or abandon the stored    *)
(* training_status is: pending without active modules; completed when all   *)
(* modules are effectively completed and an attempt is passed; in_review    *)
(* when all are completed and none is passed, or when not all are completed *)
(* but some module has progress; pending otherwise.                         *)
C5_ExpectedTrainingStatus ==
    LET all_completed == \A m \in ActiveModules : Payload[m].training_status = "completed"
        quiz_passed == \E i \in 1..Len(attempts) : attempts[i].status = "passed"
        some_progress == \E m \in ActiveModules :
                             Progress[m] # None /\ Val(Progress[m]).progress_percent > 0
    IN  IF numModules = 0 THEN "pending"
        ELSE IF all_completed /\ quiz_passed THEN "completed"
        ELSE IF all_completed THEN "in_review"
        ELSE IF some_progress THEN "in_review"
        ELSE "pending"

C5_TrainingStatusSynced ==
    (last.op \in {"watch_video", "quiz_start", "quiz_submit", "quiz_abandon"} /\ Succeeded)
        => /\ Onboarding # None
           /\ Row.training_status = C5_ExpectedTrainingStatus

C5_Witness ==
    /\ last.op = "watch_video"
    /\ Succeeded
    /\ numModules >= 2
    /\ Payload[2].training_status = "locked"
    /\ Row.training_status = "in_review"

(* C6: after every write of the onboarding row the stored current_status is *)
(* derive_current_status of the stored stage columns, also when the caller  *)
(* assigned some other value to current_status.                             *)
C6_CurrentStatusDerived ==
    Onboarding # None
        => Row.current_status =
               derive_current_status(Row.application_status, Row.identity_status,
                                     Row.contact_status, Row.training_status,
                                     Row.final_approval_status)

C6_Witness ==
    /\ last.op = "onboarding_partial_update"
    /\ last.code = 200
    /\ Len(last.arg) = 2
    /\ last.arg[2] # Row.current_status

(* C7: rejection dominates. A row with any rejected stage has current_status *)
(* rejected, whatever the other stages are.                                 *)
C7_RejectionDominates ==
    (Onboarding # None /\ ~NoStageRejected) => Row.current_status = "rejected"

C7_Witness ==
    /\ Onboarding # None
    /\ Row.identity_status = "completed"
    /\ Row.training_status = "completed"
    /\ Row.final_approval_status = "completed"
    /\ Row.contact_status = "rejected"
    /\ Row.current_status = "rejected"

(* C8: dominance rule as claimed. A row with no rejected stage whose        *)
(* identity_status and training_status are completed has current_status     *)
(* completed, independent of contact_status.                                *)
C8_DominanceClaim ==
    (Onboarding # None /\ NoStageRejected
       /\ Row.identity_status = "completed" /\ Row.training_status = "completed")
        => Row.current_status = "completed"

(* C9: a row saved with application_status and identity_status completed,   *)
(* contact_status and training_status pending and final_approval_status at  *)
(* its default has current_status completed after the save.                 *)
C9_AutoCompleteClaim ==
    (Onboarding # None
       /\ Row.application_status = "completed" /\ Row.identity_status = "completed"
       /\ Row.contact_status = "pending" /\ Row.training_status = "pending"
       /\ Row.final_approval_status = "pending")
        => Row.current_status = "completed"

(* C10: a watch request on a module whose effective state is locked is      *)
(* answered 409, for video 1 and for video 2.                               *)
C10_LockedWatchConflict ==
    [][(last'.op = "watch_video" /\ last'.target \in ActiveModules
          /\ Payload[last'.target].training_status = "locked")
         => last'.code = 409]_vars

C10_Witness ==
    /\ last.op = "watch_video"
    /\ last.code = 409
    /\ last.arg = 2
    /\ Payload[last.target].training_status = "locked"

(* C11: a watch of video 2 on an active module that is not locked and whose *)
(* progress is below 50 is answered 400, and the module is not completed    *)
(* afterwards.                                                              *)
C11_SecondVideoNeedsFirst ==
    [][\A m \in ActiveModules :
          (/\ last'.op = "watch_video"
           /\ last'.target = m
           /\ last'.arg = 2
           /\ Payload[m].training_status # "locked"
           /\ (Progress[m] = None \/ Val(Progress[m]).progress_percent < 50))
              => /\ last'.code = 400
                 /\ Progress'[m] # None
                 /\ Val(Progress'[m]).status # "completed"
                 /\ Val(Progress'[m]).progress_percent < 50
                 /\ build_training_module_payload_for_mentor(Progress', numModules')[m]
                        .training_status # "completed"]_vars

C11_Witness ==
    /\ last.op = "watch_video"
    /\ last.arg = 2
    /\ last.code = 400
    /\ last.target = 2
    /\ Payload[1].training_status = "completed"
    /\ Payload[2].training_status = "in_progress"
    /\ Payload[2].progress_percent = 0

(* C12: when video 1 of an in_progress module has just been marked, marking *)
(* its video 2 stores progress 100, status completed and a completed_at,    *)
(* and the next active module, locked before, is in_progress afterwards.    *)
C12_TwoVideosComplete ==
    [][\A m \in ActiveModules :
          (/\ last = Response("watch_video", m, 1, 200)
           /\ Payload[m].training_status = "in_progress"
           /\ last'.op = "watch_video"
           /\ last'.target = m
           /\ last'.arg = 2)
              => LET after == build_training_module_payload_for_mentor(
                                  Progress', numModules')
                 IN  /\ last'.code = 200
                     /\ Val(Progress'[m]).progress_percent = 100
                     /\ Val(Progress'[m]).status = "completed"
                     /\ Val(Progress'[m]).completed_at # None
                     /\ after[m].training_status = "completed"
                     /\ after[m].progress_percent = 100
                     /\ after[m].completed_at # None
                     /\ m < numModules
                           => /\ Payload[m + 1].training_status = "locked"
                              /\ after[m + 1].training_status = "in_progress"]_vars

C12_Witness ==
    /\ last = Response("watch_video", 1, 2, 200)
    /\ numModules >= 2
    /\ Payload[1].training_status = "completed"
    /\ Payload[1].progress_percent = 100
    /\ Payload[2].training_status = "in_progress"
    /\ Progress[2] = None
(* C13: a quiz start while some active module is not effectively completed  *)
(* is answered 409, makes no generator call and creates no attempt; an      *)
(* attempt is only ever created from a state in which there are active      *)
(* modules and all of them are effectively completed.                       *)
C13_StartNeedsAllModules ==
    [][/\ (/\ last'.op = "quiz_start"
            /\ \E m \in ActiveModules : Payload[m].training_status # "completed")
              => /\ last'.code = 409
                 /\ last'.arg = 0
                 /\ attempts' = attempts
       /\ Len(attempts') > Len(attempts)
              => /\ numModules >= 1
                 /\ \A m \in ActiveModules : Payload[m].training_status = "completed"]_vars

C13_Witness ==
    /\ last = Response("quiz_start", 0, 0, 409)
    /\ numModules >= 2
    /\ Payload[1].training_status = "completed"
    /\ Payload[2].training_status = "in_progress"
    /\ attempts = <<>>

(* C14: a quiz start of a mentor who has a passed attempt answers with that *)
(* attempt; otherwise, of a mentor who has a pending attempt, with that     *)
(* pending attempt. Either way no generator call is made and the mentor's   *)
(* attempts are the same after the request as before.                       *)
C14_StartIdempotent ==
    [][last'.op = "quiz_start"
          => LET has_passed == \E i \in 1..Len(attempts) : attempts[i].status = "passed"
                 has_pending == \E i \in 1..Len(attempts) : attempts[i].status = "pending"
             IN  /\ has_passed
                     => /\ last'.code = 200
                        /\ last'.target \in 1..Len(attempts)
                        /\ attempts[last'.target].status = "passed"
                        /\ last'.arg = 0
                        /\ attempts' = attempts
                 /\ (~has_passed /\ has_pending)
                     => /\ last'.code = 200
                        /\ last'.target \in 1..Len(attempts)
                        /\ attempts[last'.target].status = "pending"
                        /\ last'.arg = 0
                        /\ attempts' = attempts]_vars

C14_Witness ==
    /\ last.op = "quiz_start"
    /\ last.code = 200
    /\ last.target \in 1..Len(attempts)
    /\ attempts[last.target].status = "passed"
    /\ Len(attempts) < MaxAttempts

(* C15: a quiz start that called the generator either creates an attempt    *)
(* with code 201, from questions that do not repeat the latest resolved     *)
(* attempt, or is answered 503 and leaves the attempts, the module progress  *)
(* and the onboarding row as they were; a quiz start is never answered with *)
(* a server error.                                                          *)
C15_GenerationFailureClean ==
    [][last'.op = "quiz_start"
          => /\ last'.code \in {200, 201, 409, 503}
             /\ last'.arg > 0
                   => IF Len(attempts') > Len(attempts)
                      THEN LET resolved == latest_resolved_attempt(attempts)
                           IN  /\ last'.code = 201
                               /\ resolved # 0
                                     => quiz_questions_signature(
                                            attempts'[Len(attempts')].questions)
                                        # quiz_questions_signature(
                                              attempts[resolved].questions)
                      ELSE /\ last'.code = 503
                           /\ UNCHANGED <<attempts, Progress, Onboarding>>
             /\ last'.code = 503
                   => /\ last'.arg > 0
                      /\ UNCHANGED <<attempts, Progress, Onboarding>>]_vars

C15_Witness ==
    /\ last.op = "quiz_start"
    /\ last.code = 503
    /\ last.arg = StartRetries
    /\ Len(attempts) >= 1
    /\ attempts[Len(attempts)].status = "failed"
    /\ Onboarding # None
    /\ Row.training_status = "in_review"

(* C16: the score a submit stores is the number of positions whose          *)
(* submitted answer equals the question's correct_option_index; it lies     *)
(* between 0 and the number of questions; and the attempt becomes passed    *)
(* exactly when the score is at least 7, failed otherwise, whatever         *)
(* pass_mark the attempt held.                                              *)
C16_Grading ==
    [][(last'.op = "quiz_submit" /\ last'.code = 200)
          => LET t == last'.target
                 raw == last'.arg
                 questions == attempts[t].questions
                 matches == {i \in 1..Len(questions) :
                                /\ i <= Len(raw)
                                /\ raw[i] = RawInt(questions[i].correct_option_index)}
                 score == attempts'[t].score
             IN  /\ attempts[t].status = "pending"
                 /\ score = Cardinality(matches)
                 /\ 0 <= score
                 /\ score <= Len(questions)
                 /\ attempts'[t].status \in {"passed", "failed"}
                 /\ attempts'[t].status = "passed" <=> score >= 7]_vars

C16_Witness ==
    /\ last.op = "quiz_submit"
    /\ last.code = 200
    /\ attempts[1].status = "passed"
    /\ attempts[1].score = 7
    /\ Len(attempts[1].questions) > 7
    /\ Len(last.arg) = Len(attempts[1].questions)

(* C17 as stated: a submit on a pending attempt whose list holds a negative *)
(* or non-integer entry resolves the attempt, with one slot per question    *)
(* and that entry stored as unanswered.                                     *)
C17_NormalizationClaim ==
    [][(/\ last'.op = "quiz_submit"
        /\ last'.target \in 1..Len(attempts)
        /\ attempts[last'.target].status = "pending"
        /\ \/ /\ last'.code = 200
              /\ \E i \in 1..Len(last'.arg) :
                     last'.arg[i] = RawText \/ last'.arg[i] = RawInt(-1)
           \/ /\ last'.code = 400
              /\ \E e \in last'.arg : e[2] = RawText \/ e[2] = RawInt(-1))
          => LET t == last'.target
                 stored == attempts'[t].selected_answers
             IN  /\ attempts'[t].status \in {"passed", "failed"}
                 /\ Len(stored) = Len(attempts[t].questions)]_vars

(* C17: a submit that is graded stores exactly one slot per question, slot  *)
(* i holding entry i of the submitted list, the entries beyond the          *)
(* questions dropped and the slots the list does not reach unanswered; an   *)
(* unanswered slot is not counted in the score. Only a non-empty list of    *)
(* integers 0..3 is graded: any other list is refused with 400 and the      *)
(* attempts and the onboarding row stay as they were.                       *)
C17_Normalization ==
    [][last'.op = "quiz_submit"
          => /\ last'.code = 400
                   => UNCHANGED <<attempts, Onboarding, Progress>>
             /\ last'.code = 200
                   => LET t == last'.target
                          raw == last'.arg
                          questions == attempts[t].questions
                          stored == attempts'[t].selected_answers
                      IN  /\ selected_answers_valid(raw)
                          /\ Len(stored) = Len(questions)
                          /\ \A i \in 1..Len(questions) :
                                 IF i <= Len(raw)
                                 THEN stored[i] = Some(raw[i][2])
                                 ELSE stored[i] = None
                          /\ attempts'[t].score
                               <= Cardinality({i \in 1..Len(stored) : stored[i] # None})]_vars

C17_Witness ==
    /\ last.op = "quiz_submit"
    /\ last.code = 200
    /\ Len(last.arg) < Len(attempts[1].questions)
    /\ Len(attempts[1].selected_answers) = Len(attempts[1].questions)
    /\ attempts[1].selected_answers[Len(attempts[1].questions)] = None
    /\ attempts[1].selected_answers[1] # None
    /\ attempts[1].score >= 1
C19_AbandonResolvedConflict ==
    [][(/\ last'.op = "quiz_abandon"
        /\ last'.target \in 1..Len(attempts)
        /\ attempts[last'.target].status \in {"passed", "failed"})
          => /\ last'.code = 409
             /\ attempts' = attempts]_vars

(* C20: an abandon of a pending attempt stores status failed, score 0 and a *)
(* submitted_at for it, and the training_status the request syncs is not    *)
(* completed unless another attempt of the mentor was passed.               *)
C20_AbandonPending ==
    [][(/\ last'.op = "quiz_abandon"
        /\ last'.target \in 1..Len(attempts)
        /\ attempts[last'.target].status = "pending")
          => LET t == last'.target
             IN  /\ last'.code = 200
                 /\ attempts'[t].status = "failed"
                 /\ attempts'[t].score = 0
                 /\ attempts'[t].submitted_at # None
                 /\ \A i \in 1..Len(attempts) : i # t => attempts'[i] = attempts[i]
                 /\ Onboarding' # None
                 /\ Val(Onboarding').training_status = "completed"
                       => \E i \in 1..Len(attempts) :
                              i # t /\ attempts[i].status = "passed"]_vars

C20_Witness ==
    /\ last.op = "quiz_abandon"
    /\ last.code = 200
    /\ attempts[last.target].status = "failed"
    /\ attempts[last.target].score = 0
    /\ attempts[last.target].selected_answers = <<>>
    /\ attempts[last.target].submitted_at = Some(clock)
    /\ Row.training_status = "in_review"

(* C27: for the stages of a stored row none of which is rejected,           *)
(* derive_current_status is completed exactly when identity, training and   *)
(* final approval are all completed, whatever application and contact are;  *)
(* otherwise it is pending exactly when all five stages are pending;        *)
(* otherwise it is in_review. Its result is always one of pending,          *)
(* in_review, completed, rejected.                                          *)
C27_Derived ==
    derive_current_status(Row.application_status, Row.identity_status,
                          Row.contact_status, Row.training_status,
                          Row.final_approval_status)

C28_ProgressMonotonic ==
    [][\A m \in 1..MaxModules :
          /\ Progress[m] # None =>
               /\ Progress'[m] # None
               /\ Val(Progress'[m]).progress_percent >= Val(Progress[m]).progress_percent
               /\ Val(Progress[m]).status = "completed" =>
                      /\ Val(Progress'[m]).status = "completed"
                      /\ Val(Progress'[m]).progress_percent = 100
          /\ last' = Response("watch_video", m, 1, 200) =>
               LET current == IF Progress[m] = None THEN 0
                              ELSE Val(Progress[m]).progress_percent
               IN  Val(Progress'[m]).progress_percent =
                       IF current > 50 THEN current ELSE 50]_vars

C28_Witness ==
    /\ last = Response("watch_video", 1, 1, 200)
    /\ Val(Progress[1]).status = "completed"
    /\ Val(Progress[1]).progress_percent = 100

(* C29: in every state reached through watch requests, every stored         *)
(* progress row has progress_percent 0, 50 or 100, is completed exactly     *)
(* when its progress_percent is 100, has completed_at set exactly when it   *)
(* is completed, and no two rows are of the same mentor and module.         *)
C29_ProgressRowShape ==
    /\ \A row \in progress :
          /\ row.progress_percent \in {0, 50, 100}
          /\ row.status = "completed" <=> row.progress_percent = 100
          /\ row.completed_at # None <=> row.status = "completed"
    /\ \A row1, row2 \in progress :
          row1.mentor = row2.mentor /\ row1.module = row2.module => row1 = row2

C29_Witness ==
    /\ last = Response("watch_video", 2, 1, 200)
    /\ Cardinality(progress) = 2
    /\ \E row \in progress : row.module = 1 /\ row.progress_percent = 100
                             /\ row.completed_at # None
    /\ \E row \in progress : row.module = 2 /\ row.progress_percent = 50
                             /\ row.completed_at = None

(* C30 as stated: a watch request answered 409 or 400 leaves the progress   *)
(* table and the onboarding row as they were.                               *)
C30_RejectedWatchClean ==
    [][(last'.op = "watch_video" /\ last'.code \in {400, 409})
           => /\ progress' = progress
              /\ onboarding' = onboarding]_vars

(* C24: freshness. Every attempt a quiz start creates differs from the      *)
(* mentor's most recent passed or failed attempt at that moment in its      *)
(* questions compared without their order and case: some lower-cased entry  *)
(* (question, options, module title) occurs a different number of times in  *)
(* the two. A reordered or re-cased copy of the previous questions is never *)
(* stored.                                                                  *)
C24_Occurrences(questions, entry) ==
    Cardinality({i \in 1..Len(questions) : signature_entry(questions[i]) = entry})

C24_SameUpToOrder(questions1, questions2) ==
    \A entry \in {signature_entry(questions1[i]) : i \in 1..Len(questions1)}
                 \cup {signature_entry(questions2[i]) : i \in 1..Len(questions2)} :
        C24_Occurrences(questions1, entry) = C24_Occurrences(questions2, entry)

C24_Freshness ==
    [][Len(attempts') > Len(attempts)
          => LET created == attempts'[Len(attempts')]
                 resolved == latest_resolved_attempt(attempts_of(attempts, created.mentor))
             IN  /\ last'.op = "quiz_start"
                 /\ created.status = "pending"
                 /\ resolved # 0
                       => ~C24_SameUpToOrder(created.questions,
                                             attempts[resolved].questions)]_vars

C24_Witness ==
    /\ last = Response("quiz_start", 2, 3, 201)
    /\ attempts[1].status = "failed"
    /\ attempts[2].status = "pending"
    /\ attempts[1].questions = QuizA(numModules)
    /\ attempts[2].questions = QuizB(numModules)

Frame == inflight[1]
IsPrefix(s, t) == Len(s) <= Len(t) /\ \A i \in 1..Len(s) : s[i] = t[i]
Covered(questions) ==
    \A m \in 1..numModules :
        \E i \in 1..Len(questions) : questions[i].module_title = ModuleTitle(m)
IsRound == inflight # <<>> /\ inflight' # <<>> /\ Frame'.requests = Frame.requests + 1

(* C21: exact count. Whatever the source answers over the rounds, a call    *)
(* that returns hands back exactly total_questions questions, no two with   *)
(* the same lower-cased text, each of them a candidate kept by the call;    *)
(* a candidate once kept is never replaced or moved by a later round, so    *)
(* the first occurrence of a text is the one returned.                      *)
C21_ExactCount ==
    [][(inflight # <<>> /\ inflight' # <<>>)
          => /\ IsPrefix(Frame.all_candidates, Frame'.all_candidates)
             /\ Cardinality({Lower(Frame'.all_candidates[i].question) :
                                i \in 1..Len(Frame'.all_candidates)})
                    = Len(Frame'.all_candidates)
             /\ Frame'.state = "returned"
                   => /\ Len(Frame'.questions) = Frame'.total_questions
                      /\ Cardinality({Lower(Frame'.questions[i].question) :
                                         i \in 1..Len(Frame'.questions)})
                             = Frame'.total_questions
                      /\ Range(Frame'.questions) \subseteq Range(Frame'.all_candidates)]_vars

C21_Witness ==
    /\ inflight # <<>>
    /\ Frame.state = "returned"
    /\ Frame.total_questions = 3
    /\ Frame.requests = 3
    /\ \E i \in 1..3 : Frame.questions[i].question = Text(1, "mixed")
    /\ Frame.questions[1].question = Text(3, "lower")

(* C22: per-module coverage. A call that returns with total_questions at    *)
(* least the number of active modules returns a question for every active   *)
(* module title. A round after which the accumulated candidates leave some  *)
(* module without a question does not return: unless the source raised or   *)
(* it was the last round the call goes on to another round, holding the     *)
(* candidates gathered so far.                                              *)
C22_ModuleCoverage ==
    [][IsRound /\ Frame'.total_questions >= numModules
          => /\ Frame'.state = "returned" => Covered(Frame'.questions)
             /\ ~Covered(Frame'.all_candidates)
                   => /\ Frame'.state # "returned"
                      /\ (Frame'.state # "source_error" /\ Frame'.requests < 5)
                            => /\ Frame'.state = "running"
                               /\ IsPrefix(Frame.all_candidates, Frame'.all_candidates)]_vars

C22_Witness ==
    /\ inflight # <<>>
    /\ numModules = 2
    /\ Frame.state = "returned"
    /\ Frame.total_questions = 2
    /\ Frame.requests = 2
    /\ Len(Frame.all_candidates) = 4
    /\ Covered(Frame.questions)

(* C23 as stated: a call with a positive total_questions that has ended has *)
(* either returned or failed as exhausted, after at most 5 requests.        *)
C23_BoundedGenerationClaim ==
    (inflight # <<>> /\ Frame.total_questions > 0)
        => /\ Frame.requests <= 5
           /\ Frame.state \in {"running", "returned", "exhausted"}

(* C23: bounded generation. A call makes its requests one after another and *)
(* at most 5 of them, and is still running only while it has made fewer     *)
(* than 5. It ends by returning a selected set, by failing as exhausted     *)
(* with the number of its unique candidates, or by an error the source      *)
(* raised, which leaves the call as it is raised (a call with a total that  *)
(* is not positive fails before any request). It fails as exhausted         *)
(* exactly when 5 requests were answered and the selection failed after     *)
(* each; a round whose selection succeeds returns.                          *)
C23_BoundedGeneration ==
    [][(inflight # <<>> /\ inflight' # <<>>)
          => /\ Frame'.requests <= 5
             /\ Frame'.requests \in {Frame.requests, Frame.requests + 1}
             /\ Frame'.state = "running" => Frame'.requests < 5
             /\ Frame.state # "running" => Frame' = Frame
             /\ Frame'.state \in {"running", "returned", "exhausted", "source_error"}
             /\ LET selected == select_questions_for_quiz(
                                    Frame'.all_candidates, numModules, Frame'.total_questions)
                IN  /\ Frame'.state = "exhausted"
                          <=> /\ Frame'.requests = 5
                              /\ Frame'.state # "source_error"
                              /\ selected = None
                    /\ Frame'.state = "exhausted"
                          => Cardinality(question_keys(Frame'.all_candidates))
                                 = Len(Frame'.all_candidates)
                    /\ (IsRound /\ Frame'.state # "source_error")
                          => (Frame'.state = "returned" <=> selected # None)
                    /\ Frame'.state = "source_error"
                          => /\ Frame'.all_candidates = Frame.all_candidates
                             /\ Frame'.questions = <<>>]_vars

C23_Witness ==
    /\ inflight # <<>>
    /\ Frame.state = "source_error"
    /\ Frame.requests = 3
    /\ Frame.total_questions = 3
    /\ Len(Frame.all_candidates) = 2

(* C25: the start race. With quiz starts of one mentor in flight together   *)
(* the checks and the create are separate steps: a request creates its      *)
(* pending attempt whatever the table holds by then. A second pending       *)
(* attempt of the mentor is stored only by a request whose checks ran       *)
(* before the first one was stored, and never by one that checked after.    *)
C25_PendingOf(att, mentor) ==
    {i \in 1..Len(att) : att[i].mentor = mentor /\ att[i].status = "pending"}

C25_StartRace ==
    [][\A mentor \in Mentors :
          (Cardinality(C25_PendingOf(attempts', mentor)) > 1
             /\ Cardinality(C25_PendingOf(attempts, mentor)) <= 1)
          => \E k \in 1..Len(inflight) :
                /\ inflight[k].mentor = mentor
                /\ Len(inflight') = Len(inflight) - 1
                /\ last' = Response("quiz_start", Len(attempts'), last'.arg, 201)
                /\ inflight[k].rows_seen < Len(attempts)
                /\ \A i \in C25_PendingOf(attempts, mentor) : i > inflight[k].rows_seen]_vars

C25_Witness ==
    /\ Len(attempts) = 2
    /\ attempts[1].mentor = Primary
    /\ attempts[2].mentor = Primary
    /\ attempts[1].status = "pending"
    /\ attempts[2].status = "pending"
    /\ inflight = <<>>
    /\ last.code = 201
    /\ \A i \in 1..Len(attempts) : attempts[i].status # "passed"
    /\ modules_fully_completed(
           build_training_module_payload_for_mentor(
               progress_map(progress, Primary), numModules))

(* C34: with no active module a quiz start is answered 409 and creates no   *)
(* attempt, and no attempt ever exists; the stored training_status, where   *)
(* there is a row, is pending.                                              *)
C34_NoModulesConflict ==
    [][numModules = 0
          => /\ attempts' = <<>>
             /\ Onboarding' # None => Val(Onboarding').training_status = "pending"
             /\ last'.op = "quiz_start"
                   => /\ last'.code = 409
                      /\ UNCHANGED <<attempts, progress, onboarding>>]_vars

C34_Witness ==
    /\ numModules = 0
    /\ last = Response("quiz_start", 0, 0, 409)
    /\ Onboarding # None
    /\ Row.training_status = "pending"
    /\ attempts = <<>>

(* C36: attempt record consistency. Every stored attempt has 15 questions   *)
(* and total_questions 15; a pending one has score 0, no answers and no     *)
(* submitted_at; a passed one has a score of at least 7 and submitted_at    *)
(* set; a failed one has a score below 7 and submitted_at set.              *)
C36_AttemptConsistent ==
    \A i \in 1..Len(attempts) :
        LET attempt == attempts[i]
        IN  /\ Len(attempt.questions) = 15
            /\ attempt.total_questions = 15
            /\ attempt.status \in {"pending", "passed", "failed"}
            /\ attempt.status = "pending"
                  => /\ attempt.score = 0
                     /\ attempt.selected_answers = <<>>
                     /\ attempt.submitted_at = None
            /\ attempt.status = "passed"
                  => attempt.score >= 7 /\ attempt.submitted_at # None
            /\ attempt.status = "failed"
                  => attempt.score < 7 /\ attempt.submitted_at # None

C36_Witness ==
    /\ Len(attempts) = 2
    /\ attempts[1].status = "failed"
    /\ attempts[1].score = 6
    /\ attempts[2].status = "passed"
    /\ attempts[2].score = 7
    /\ Len(attempts[2].selected_answers) = 15

(* A mentor's training workflow alone: the four training requests of one    *)
(* mentor, one after the other, over a fixed set of active modules.         *)
NextTraining == WatchVideo \/ QuizStart \/ QuizSubmit \/ QuizAbandon

SpecTraining == Init /\ [][NextTraining]_vars

StatusRank(status) ==
    CASE status = "pending" -> 0
      [] status = "in_review" -> 1
      [] status = "completed" -> 2
      [] OTHER -> 3

TrainingRank == IF Onboarding = None THEN 0 ELSE StatusRank(Row.training_status)

(* C37: under the four training requests the stored training_status is one  *)
(* of pending, in_review, completed and never moves backwards; once         *)
(* completed it stays completed.                                            *)
C37_StatusMonotonic ==
    [][/\ TrainingRank' >= TrainingRank
       /\ TrainingRank' <= 2
       /\ TrainingRank = 2 => TrainingRank' = 2]_vars

C37_Witness ==
    /\ TrainingRank = 2
    /\ last.op = "quiz_abandon"
    /\ \E i \in 1..Len(attempts) : attempts[i].status = "failed"

(* C39 as stated: in every state the training requests reach, rejected ones *)
(* included, the status derived from the stored rows equals the status      *)
(* derived from the module payload built for the same state.                *)
C39_DerivationsAgree ==
    derive_training_status_from_db(progress, Primary, numModules,
                                   attempts_of(attempts, Primary))
        = next_training_status(Payload, attempts_of(attempts, Primary))

(* The properties C31 asks of an accepted question, over n active modules.  *)
C31_WellFormed(q, n) ==
    /\ q.question # Empty
    /\ Len(q.options) = 4
    /\ \A k \in 1..4 : q.options[k] # Empty
    /\ q.correct_option_index \in 0..3
    /\ \E m \in 1..n : q.module_title = ModuleTitle(m)

(* A raw item that has a question text and at least 4 non-empty options.    *)
C31_Usable(item) ==
    /\ item.question.body # Empty
    /\ item.options.is_list
    /\ Cardinality({k \in 1..Len(item.options.values) : item.options.values[k] # Empty}) >= 4

(* C31: every question the normalization accepts, hence every candidate and *)
(* every returned question of a generate call, has a non-empty text, exactly *)
(* 4 non-empty options, an index in 0..3 (0 where the raw index is not a    *)
(* number or out of range) and the title of an active module; raw items     *)
(* without text or 4 options are rejected: they add nothing to the result.  *)
C31_NormalizedQuestions ==
    /\ inflight # <<>> =>
           /\ \A i \in 1..Len(Frame.all_candidates) :
                  C31_WellFormed(Frame.all_candidates[i], numModules)
           /\ \A i \in 1..Len(Frame.questions) :
                  C31_WellFormed(Frame.questions[i], numModules)
    /\ (inflight = <<>> /\ numModules > 0) =>
           \A response \in Responses :
               response.ok =>
                   LET raw == response.questions
                       normalized == normalize_generated_questions(raw, numModules, 0)
                   IN  /\ \A i \in 1..Len(normalized) :
                              C31_WellFormed(normalized[i], numModules)
                       /\ normalized = normalize_generated_questions(
                                           SelectSeq(raw, C31_Usable), numModules, 0)
                       /\ Len(normalized) <= Len(SelectSeq(raw, C31_Usable))
                       /\ (Len(raw) = 1 /\ C31_Usable(raw[1])) =>
                              /\ Len(normalized) = 1
                              /\ normalized[1].correct_option_index =
                                     (IF raw[1].correct_option_index \in {RawInt(k) : k \in 0..3}
                                      THEN Val(parse_int(raw[1].correct_option_index))
                                      ELSE 0)

C31_Witness ==
    /\ inflight # <<>>
    /\ numModules = 2
    /\ Frame.state = "returned"
    /\ \E i \in 1..Len(Frame.questions) :
           /\ Frame.questions[i].question = Text(2, "lower")
           /\ Frame.questions[i].correct_option_index = 0
           /\ Frame.questions[i].options = RawOptions.values
    /\ \E i \in 1..Len(Frame.all_candidates) :
           /\ Frame.all_candidates[i].question = Text(3, "lower")
           /\ Frame.all_candidates[i].module_title \in {ModuleTitle(1), ModuleTitle(2)}

(* The modules with no accepted question among the gathered candidates.     *)
C32_Missing ==
    {m \in 1..numModules :
        \A i \in 1..Len(Frame.all_candidates) :
            Frame.all_candidates[i].module_title # ModuleTitle(m)}

C32_Max3(a, b, c) ==
    CHOOSE x \in {a, b, c} : x >= a /\ x >= b /\ x >= c

C32_Requested == inflight # <<>> /\ Frame.request # NoRequest

(* C32 as stated: a round requests max(6, total_questions - accepted,       *)
(* number of missing modules) items, for the missing modules when there are *)
(* any and for all modules otherwise.                                       *)
C32_RequestCountClaim ==
    C32_Requested =>
        /\ Frame.request.modules =
               (IF C32_Missing # {} THEN C32_Missing ELSE 1..numModules)
        /\ Frame.request.count =
               C32_Max3(6, Frame.total_questions - Len(Frame.all_candidates),
                        Cardinality(C32_Missing))

(* C32, amended: a round requests max(6, total_questions - accepted, number *)
(* of modules the request is scoped to) items, scoped to the missing        *)
(* modules when there are any and to all modules otherwise; the third term  *)
(* is the number of missing modules only when some module is missing.       *)
C32_RequestCount ==
    C32_Requested =>
        /\ Frame.request.modules =
               (IF C32_Missing # {} THEN C32_Missing ELSE 1..numModules)
        /\ Frame.request.count =
               C32_Max3(6, Frame.total_questions - Len(Frame.all_candidates),
                        Cardinality(Frame.request.modules))
        /\ C32_Missing # {} =>
               Frame.request.count =
                   C32_Max3(6, Frame.total_questions - Len(Frame.all_candidates),
                            Cardinality(C32_Missing))

C32_Witness ==
    /\ C32_Requested
    /\ numModules = 7
    /\ C32_Missing = {}
    /\ Frame.total_questions = 9
    /\ Len(Frame.all_candidates) = 8
    /\ Frame.request.count = 7
    /\ Frame.request.modules = 1..7

(* The result of one operation on an attempt: that of abandon (failed,      *)
(* score 0, no answers) or that of a submit (the graded answers, their      *)
(* score and the status that score gives).                                  *)
C38_ResultOfOne(attempt) ==
    \/ attempt.status = "pending"
    \/ /\ attempt.status = "failed"
       /\ attempt.score = 0
       /\ attempt.selected_answers = <<>>
    \/ /\ Len(attempt.selected_answers) = Len(attempt.questions)
       /\ attempt.score =
              Cardinality({i \in 1..Len(attempt.questions) :
                              attempt.selected_answers[i]
                                  = Some(attempt.questions[i].correct_option_index)})
       /\ attempt.status = (IF attempt.score >= 7 THEN "passed" ELSE "failed")

(* C38 as stated: with submits and abandons of one pending attempt          *)
(* interleaved, the attempt ends in the result of exactly one of them; an   *)
(* attempt stored as passed is not stored as failed afterwards, its score   *)
(* and answers stay; training_status does not go back from completed.       *)
C38_ResolveRace ==
    [][/\ \A i \in 1..Len(attempts) :
              /\ C38_ResultOfOne(attempts'[i])
              /\ attempts[i].status = "passed"
                    => /\ attempts'[i].status = "passed"
                       /\ attempts'[i].score = attempts[i].score
                       /\ attempts'[i].selected_answers = attempts[i].selected_answers
       /\ TrainingRank = 2 => TrainingRank' = 2]_vars

C33_Starting == inflight # <<>>

(* C33 as stated: one quiz start sends at most 5 requests to the            *)
(* generation source in all.                                                *)
C33_FiveRequestsClaim ==
    C33_Starting => Frame.requests <= 5

(* C33, amended: one quiz start makes at most 3 calls of the generator,     *)
(* each of at most 5 requests, so at most 15 requests in all; it makes a    *)
(* further call only after a returned set that repeats the latest resolved  *)
(* attempt, and never after a call that raised.                             *)
C33_BoundedStart ==
    C33_Starting =>
        /\ Frame.calls <= 3
        /\ Frame.requests <= 5 * Frame.calls
        /\ Frame.requests <= 15
        /\ Frame.requests >= Frame.calls
        /\ Frame.calls > 1 => Frame.latest_signature # None
        /\ (Frame.calls >= 1 /\ Frame.state = "generating")
              => /\ Frame.latest_signature # None
                 /\ quiz_questions_signature(Frame.questions) = Val(Frame.latest_signature)
        /\ Frame.state = "generating" => Frame.calls < 3

C33_Witness ==
    /\ C33_Starting
    /\ Frame.calls = 3
    /\ Frame.requests = 15
    /\ Frame.state = "held"
    /\ stale_after_loop(Frame.questions, Frame.latest_signature)

Own == attempts_of(attempts, Primary)

(* All modules completed, no passed and no pending attempt, but failed ones. *)
C35_Retrying ==
    /\ modules_fully_completed(Payload)
    /\ \A i \in 1..Len(Own) : Own[i].status = "failed"
    /\ Own # <<>>

(* C35: retry after failure. A quiz start of a mentor with all modules      *)
(* completed and only failed attempts never answers with a failed attempt:  *)
(* when the source has given a set that differs from the latest resolved    *)
(* attempt it creates a new pending attempt with that set (201), otherwise  *)
(* it answers 503 and changes nothing. So a mentor who keeps retrying and   *)
(* then submits 7 correct answers eventually has training_status completed. *)
C35_RetryAfterFailure ==
    /\ [][(C35_Retrying /\ inflight # <<>> /\ inflight' = <<>>)
             => IF /\ Frame.state = "held"
                   /\ ~stale_after_loop(Frame.questions, Frame.latest_signature)
                THEN /\ last' = Response("quiz_start", Len(attempts'), Frame.calls, 201)
                     /\ attempts' = Append(attempts, attempts'[Len(attempts')])
                     /\ attempts'[Len(attempts')].status = "pending"
                     /\ attempts'[Len(attempts')].questions = Frame.questions
                     /\ quiz_questions_signature(Frame.questions)
                            # quiz_questions_signature(attempts[Len(attempts)].questions)
                ELSE /\ last' = Response("quiz_start", 0, Frame.calls, 503)
                     /\ UNCHANGED <<attempts, onboarding>>]_vars
    /\ C35_Retrying ~> (TrainingRank = 2)

C35_Witness ==
    /\ Len(attempts) = 2
    /\ attempts[1].status = "failed"
    /\ attempts[2].status = "passed"
    /\ attempts[2].score = 7
    /\ TrainingRank = 2

====
